---- MODULE Spec2Model ----
(***************************************************************************)
(* Model of the messaging core of the bookstore simulation:                *)
(*   src/message_bus.py  MessageBus, AgentCommunicator                     *)
(*   src/agents.py       BookstoreAgent.process_messages / handle_message  *)
(* One user (tick-loop) thread calls the bus API; every start() launches a *)
(* dispatcher thread that runs MessageBus._process_messages.               *)
(***************************************************************************)
EXTENDS Integers, Sequences, FiniteSets, TLC

\* ------------------------------------------------------------- bounds
MaxThreads == 2        \* dispatcher threads ever launched (start() calls)
MaxSends == 1          \* send_message calls in Spec
MaxLifeSends == 2      \* send_message calls in SpecLife and SpecFair
HistFill == 998        \* messages already dispatched when SpecHist begins
HistExtra == 4         \* further send_message calls in SpecHist
MaxDrainSends == 2     \* send_message calls in SpecDrain
MaxTicks == 2          \* BookstoreModel.step calls in SpecTick
MaxTickSends == 2      \* messages sent by agent actions in SpecTick
MaxQuerySends == 2     \* send_message calls in SpecQuery
MaxViewSends == 3      \* further send_message calls in SpecView
MaxLimit == 2          \* largest `limit` passed to get_message_history
MaxRegRaw == 2         \* registrations of the raising handler in SpecRegistry
MaxSnapSends == 2      \* send_message calls in SpecSnapshot
MaxCleanupSends == 2   \* send_message calls in SpecCleanup
StepsLeft == 2         \* steps short of StepLimit when SpecStep begins
MaxIdleSteps == 2      \* BookstoreModel.step calls on the ended model in SpecStep
MaxStepSends == 1      \* messages sent by agent actions in SpecStep
MaxLockSends == 2      \* send_message calls in SpecLock
MaxRunSteps == 3       \* largest `steps` passed to run_simulation in SpecRun
LowStock == 1          \* availableQuantity of the book when SpecShop begins
MaxShopTicks == 2      \* BookstoreModel.step calls in SpecShop
MaxModelTicks == 1     \* BookstoreModel.step calls on each model in SpecSecond
MaxComms == 3          \* AgentCommunicator objects ever constructed
MaxRaw == 1            \* registrations of the raising handler at one time

\* ---------------------------------------------------------- constants
HistoryCap == 1000     \* message_bus.py:105 "Keep only last 1000 messages"
StatusEvery == 50      \* simulation.py:137 check_simulation_status every 50 steps
StepLimit == 500       \* simulation.py:182 "Automatic end after 500 steps"
SampleStock == 15      \* ontology.py:222 availableQuantity of inv_shining
ReorderLevel == 5      \* ontology.py:223 reorderLevel of inv_shining
RestockAmount == 20    \* agents.py:236 EmployeeAgent.restock_amount

Ids == {"A", "B", "C"}
Kinds == {"purchase_request", "system_alert"}
None == "None"
Threads == 1..MaxThreads
Comms == 1..MaxComms
\* a raw handler (not a communicator's) that raises whenever it is called
Faulty == 0
\* `callback=None`, the default of unsubscribe
NoCallback == -1
Handlers == Comms \cup {Faulty}
\* the `timeout` argument of get_messages: omitted (None), zero, a positive
\* number of seconds, or a negative number
Timeouts == {None, "zero", "positive", "negative"}
\* no direct get_messages call has been made
NoCall == [c |-> 0, timeout |-> None, state |-> "none", found |-> 0, messages |-> <<>>]
\* the ids create_agents gives the agents of a model, by class: customer_0
\* is "A", book_0 is "B", the employee who is the inventory specialist is "C"
CustomerIds == {"A"}
BookIds == {"B"}
EmployeeIds == {"C"}
\* no run_simulation call has been made
NoRun == [active |-> FALSE, steps |-> 0, count |-> 0, calls |-> 0]
NoMsg == [message_type |-> None, sender_id |-> None, recipient_id |-> None,
          content |-> "{}", timestamp |-> 0]

VARIABLES
    subscribers,        \* MessageBus.subscribers: insertion-ordered dict, as a
                        \* sequence of [id, cbs] entries
    message_history,    \* MessageBus.message_history
    lock,               \* MessageBus.lock: 0 free, t held by dispatcher thread t
    running,            \* MessageBus.running
    message_queue,      \* MessageBus.message_queue
    processor_thread,   \* MessageBus.processor_thread: 0 is None
    nthreads,           \* dispatcher threads launched so far
    pc,                 \* per dispatcher thread: position in _process_messages
    cur,                \* per dispatcher thread: the local `message`
    pending,            \* callbacks the running fan-out has still to call
    calls,              \* callbacks the running fan-out has called so far
    agent_id,           \* AgentCommunicator.agent_id (None: not constructed)
    received_messages,  \* AgentCommunicator.received_messages
    message_buffer,     \* BookstoreAgent.message_buffer of the owning agent
    main_pc,            \* the user thread: "idle", or "join" inside stop()
    sent,               \* log of the send_message calls made so far: who sent,
                        \* what, to whom, whether the bus was running, in
                        \* which tick, and whether the bus lock was held
    queued_at_stop,     \* timestamps found queued when a stop() returned with
                        \* no dispatcher loop left alive
    get_call,           \* the latest direct get_messages call of the user
                        \* thread: communicator, timeout, state and batch
    returned,           \* per communicator: the batches its direct
                        \* get_messages calls have returned, concatenated
    step_count,         \* BookstoreModel.step_count
    step_calls,         \* BookstoreModel.step calls made so far
    run,                \* the run_simulation call in progress or last made
    availableQuantity,  \* Inventory.availableQuantity of the book
    purchased_books,    \* per agent: len(CustomerAgent.purchased_books)
    sales_count,        \* per agent: BookAgent.sales_count
    prior_agents,       \* communicators of the agents of earlier models
    model_running,      \* BookstoreModel.running
    todo,               \* the agents schedule.step() has still to step in
                        \* the tick in progress
    stepping,           \* the agent whose agent_action is in progress (0: none)
    tick_log,           \* per agent: what its step() has done in the latest
                        \* tick, in order
    history_view,       \* the latest get_message_history call and the list it
                        \* returned
    stats_view          \* the dict the latest get_stats call returned

vars == <<subscribers, message_history, lock, running, message_queue,
          processor_thread, nthreads, pc, cur, pending, calls, agent_id,
          received_messages, message_buffer, main_pc, sent, queued_at_stop,
          get_call, returned, step_count, step_calls, run, availableQuantity,
          purchased_books, sales_count, prior_agents, model_running, todo,
          stepping, tick_log, history_view, stats_view>>

viewVars == <<history_view, stats_view>>

shopVars == <<availableQuantity, purchased_books, sales_count, prior_agents>>

tickVars == <<step_count, step_calls, run, model_running, todo, stepping,
             tick_log, shopVars>>

busVars == <<subscribers, message_history, lock, running, message_queue,
             processor_thread, nthreads, pc, cur, pending, calls>>

\* ------------------------------------------------------------ helpers
Range(s) == {s[i] : i \in 1..Len(s)}

Count(x, s) == Cardinality({i \in 1..Len(s) : s[i] = x})

\* `agent_id in self.subscribers`
HasKey(subs, id) == \E i \in 1..Len(subs) : subs[i].id = id

KeyIndex(subs, id) == CHOOSE i \in 1..Len(subs) : subs[i].id = id

\* `self.subscribers[agent_id]`
CallbacksOf(subs, id) == IF HasKey(subs, id) THEN subs[KeyIndex(subs, id)].cbs ELSE <<>>

\* `list(self.subscribers.keys())`
Keys(subs) == [i \in 1..Len(subs) |-> subs[i].id]

\* the content dict a caller passes with a message of a kind, written as its
\* keys: send_purchase_request passes book_isbn and quantity, make_purchase
\* and restock_book describe the sale and the restock, send_inventory_update
\* passes the new quantity, the system alerts carry an alert
ContentOf(kind) ==
    CASE kind = "purchase_request" -> "{book_isbn, quantity}"
      [] kind = "purchase_completed" ->
             "{book_isbn, price, customer_name, new_inventory, order_id}"
      [] kind = "restock_completed" ->
             "{book_isbn, old_quantity, new_quantity, employee_name}"
      [] kind = "inventory_update" -> "{book_isbn, new_quantity}"
      [] OTHER -> "{alert}"

\* Message.__init__ / __post_init__: the timestamp is assigned at
\* construction, a content of None becomes the empty dict.
Message(kind, sender, recipient, content, ts) ==
    [message_type |-> kind, sender_id |-> sender, recipient_id |-> recipient,
     content |-> IF content = None THEN "{}" ELSE content, timestamp |-> ts]

\* mutant of KeepLast: the slice keeps the first 1000 entries, [:1000]
KeepFirst(h) ==
    IF Len(h) > HistoryCap THEN SubSeq(h, 1, HistoryCap) ELSE h

\* message_history = message_history[-1000:] once longer than 1000
KeepLast(h) ==
    IF Len(h) > HistoryCap THEN SubSeq(h, Len(h) - HistoryCap + 1, Len(h)) ELSE h

\* the registrations [id, cb] of one registry entry, in list order
EntryCalls(e) == [j \in 1..Len(e.cbs) |-> [id |-> e.id, cb |-> e.cbs[j]]]

\* mutant of SkipsSender: the sender's own entry is not skipped
SkipsSenderNever(id, sender) == FALSE

\* `if agent_id != message.sender_id` fails: the entry is the sender's own
SkipsSender(id, sender) == id = sender

\* the broadcast loops: every entry but the sender's, in dict order
RECURSIVE BroadcastCalls(_, _)
BroadcastCalls(subs, sender) ==
    IF subs = <<>> THEN <<>>
    ELSE (IF ~SkipsSender(Head(subs).id, sender) THEN EntryCalls(Head(subs)) ELSE <<>>)
         \o BroadcastCalls(Tail(subs), sender)

\* mutant of DeliveryCalls: recipient_id is ignored, every message is fanned
\* out as a broadcast
DeliveryCallsAsBroadcast(subs, m) == BroadcastCalls(subs, m.sender_id)

\* mutant of DeliveryCalls: a directed message whose recipient is not
\* registered falls back to the broadcast branch
DeliveryCallsUnknownBroadcast(subs, m) ==
    IF m.recipient_id # None /\ HasKey(subs, m.recipient_id)
    THEN EntryCalls(subs[KeyIndex(subs, m.recipient_id)])
    ELSE BroadcastCalls(subs, m.sender_id)

\* mutant of DeliveryCalls: the sender is excluded from directed deliveries
\* too
DeliveryCallsSkipSelf(subs, m) ==
    IF m.recipient_id # None
    THEN IF HasKey(subs, m.recipient_id) /\ m.recipient_id # m.sender_id
         THEN EntryCalls(subs[KeyIndex(subs, m.recipient_id)])
         ELSE <<>>
    ELSE BroadcastCalls(subs, m.sender_id)

\* the callbacks _deliver_message calls for m, in call order
DeliveryCalls(subs, m) ==
    IF m.recipient_id # None
    THEN IF HasKey(subs, m.recipient_id)
         THEN EntryCalls(subs[KeyIndex(subs, m.recipient_id)])
         ELSE <<>>
    ELSE BroadcastCalls(subs, m.sender_id)

\* MessageBus.subscribe, the registry after the call
Subscribed(subs, id, cb) ==
    IF HasKey(subs, id)
    THEN [subs EXCEPT ![KeyIndex(subs, id)].cbs = Append(@, cb)]
    ELSE Append(subs, [id |-> id, cbs |-> <<cb>>])

\* mutant of RemoveFirst: every occurrence of x is removed
RemoveEvery(s, x) == SelectSeq(s, LAMBDA y : y # x)

\* list.remove(x): the first occurrence of x is removed
RemoveFirst(s, x) ==
    IF x \in Range(s)
    THEN LET i == CHOOSE k \in 1..Len(s) : s[k] = x /\ \A j \in 1..(k - 1) : s[j] # x
         IN SubSeq(s, 1, i - 1) \o SubSeq(s, i + 1, Len(s))
    ELSE s

\* MessageBus.unsubscribe, the registry after the call (NoCallback: all of id)
Unsubscribed(subs, id, cb) ==
    IF ~HasKey(subs, id) THEN subs
    ELSE IF cb # NoCallback
         THEN [subs EXCEPT ![KeyIndex(subs, id)].cbs = RemoveFirst(@, cb)]
         ELSE SelectSeq(subs, LAMBDA e : e.id # id)

\* MessageBus.get_stats (called with the lock free): the dict it returns;
\* message_types has a key for every kind that occurs in the history
GetStats(hist, subs) ==
    [total_messages |-> Len(hist),
     subscribers |-> Len(subs),
     message_types |->
         [k \in {hist[i].message_type : i \in 1..Len(hist)} |->
             Cardinality({i \in 1..Len(hist) : hist[i].message_type = k})],
     active_agents |-> Keys(subs)]

\* Python's s[-n:] for n # 0: the last n elements for n > 0, and for n < 0
\* the elements from index -n on
LastSlice(s, n) ==
    IF n > 0
    THEN (IF n >= Len(s) THEN s ELSE SubSeq(s, Len(s) - n + 1, Len(s)))
    ELSE SubSeq(s, 1 - n, Len(s))

\* mutant of GetMessageHistory: the agent filter looks at the sender only
GetMessageHistorySenderOnly(hist, agent, kind, since, limit) ==
    LET f1 == IF agent # None
              THEN SelectSeq(hist, LAMBDA m : m.sender_id = agent)
              ELSE hist
        f2 == IF kind # None
              THEN SelectSeq(f1, LAMBDA m : m.message_type = kind)
              ELSE f1
        f3 == IF since # 0
              THEN SelectSeq(f2, LAMBDA m : m.timestamp >= since)
              ELSE f2
    IN IF limit # 0 THEN LastSlice(f3, limit) ELSE f3

\* MessageBus.get_message_history: the list it returns. Each filter is
\* applied `if` its argument is truthy, so agent None, kind None, since 0
\* (or None) and limit 0 (or None) stand for "not supplied"
GetMessageHistory(hist, agent, kind, since, limit) ==
    LET f1 == IF agent # None
              THEN SelectSeq(hist, LAMBDA m : m.sender_id = agent \/ m.recipient_id = agent)
              ELSE hist
        f2 == IF kind # None
              THEN SelectSeq(f1, LAMBDA m : m.message_type = kind)
              ELSE f1
        f3 == IF since # 0
              THEN SelectSeq(f2, LAMBDA m : m.timestamp >= since)
              ELSE f2
    IN IF limit # 0 THEN LastSlice(f3, limit) ELSE f3

\* mutant of ReturnsCopy: with no filter and no limit the list returned is
\* self.message_history itself
ReturnsCopyIfFiltered(agent, kind, since, limit) ==
    agent # None \/ kind # None \/ since # 0 \/ limit # 0

\* get_message_history works on self.message_history.copy(); the list
\* comprehensions and the slice build new lists
ReturnsCopy(agent, kind, since, limit) == TRUE

\* Actor ids are opaque strings: the model names them in the order of first
\* registration, so a new registration uses a registered id or the next fresh one.
IdOrder == <<"A", "B", "C">>

UsedIds == (Range(Keys(subscribers)) \cup {agent_id[c] : c \in Comms}) \ {None}

NextIds == UsedIds \cup {IdOrder[j] : j \in {Cardinality(UsedIds) + 1} \cap (1..Len(IdOrder))}

\* every registration of the registry, in dict and list order
RECURSIVE AllCalls(_)
AllCalls(subs) ==
    IF subs = <<>> THEN <<>> ELSE EntryCalls(Head(subs)) \o AllCalls(Tail(subs))

\* registrations of the raising handler in the registry
FaultyCount ==
    Cardinality({i \in 1..Len(AllCalls(subscribers)) : AllCalls(subscribers)[i].cb = Faulty})

Alive(t) == pc[t] \in {"loop", "get", "deliver", "fanout"}

LiveThreads == {t \in Threads : Alive(t)}

\* neither get_message_history nor get_stats has been called
NoView ==
    /\ history_view = [called |-> FALSE, agent_id |-> None, message_type |-> None,
                       since |-> 0, limit |-> 0, copied |-> TRUE, messages |-> <<>>]
    /\ stats_view = [called |-> FALSE, stats |-> GetStats(<<>>, <<>>)]

\* no BookstoreModel drives the communicators
\* create_sample_data has filled the inventory, no agent has bought or sold,
\* and this is the first model of the process
NoShop ==
    /\ availableQuantity = SampleStock
    /\ purchased_books = [c \in Comms |-> 0]
    /\ sales_count = [c \in Comms |-> 0]
    /\ prior_agents = 0

NoTick ==
    /\ step_count = 0
    /\ step_calls = 0
    /\ run = NoRun
    /\ NoShop
    /\ model_running = FALSE
    /\ todo = {}
    /\ stepping = 0
    /\ tick_log = [c \in Comms |-> <<>>]

\* ----------------------------------------------------------------- Init
\* MessageBus.__init__; no communicator constructed yet
Init ==
    /\ subscribers = <<>>
    /\ message_history = <<>>
    /\ lock = 0
    /\ running = FALSE
    /\ message_queue = <<>>
    /\ processor_thread = 0
    /\ nthreads = 0
    /\ pc = [t \in Threads |-> "none"]
    /\ cur = [t \in Threads |-> NoMsg]
    /\ pending = <<>>
    /\ calls = <<>>
    /\ agent_id = [c \in Comms |-> None]
    /\ received_messages = [c \in Comms |-> <<>>]
    /\ message_buffer = [c \in Comms |-> <<>>]
    /\ main_pc = "idle"
    /\ sent = <<>>
    /\ queued_at_stop = {}
    /\ get_call = NoCall
    /\ returned = [c \in Comms |-> <<>>]
    /\ NoTick
    /\ NoView

\* mutant of Start: start() begins with an empty history
StartClearing ==
    /\ main_pc = "idle"
    /\ nthreads < MaxThreads
    /\ running' = TRUE
    /\ nthreads' = nthreads + 1
    /\ processor_thread' = nthreads + 1
    /\ pc' = [pc EXCEPT ![nthreads + 1] = "loop"]
    /\ message_history' = <<>>
    /\ UNCHANGED <<subscribers, lock, message_queue, cur, pending,
                   calls, agent_id, received_messages, message_buffer, main_pc,
                   sent, queued_at_stop,
                   get_call, returned, tickVars, viewVars>>

\* ------------------------------------------------- user-thread actions
\* MessageBus.start: no check of `running`, a new thread on every call
Start ==
    /\ main_pc = "idle"
    /\ nthreads < MaxThreads
    /\ running' = TRUE
    /\ nthreads' = nthreads + 1
    /\ processor_thread' = nthreads + 1
    /\ pc' = [pc EXCEPT ![nthreads + 1] = "loop"]
    /\ UNCHANGED <<subscribers, message_history, lock, message_queue, cur, pending,
                   calls, agent_id, received_messages, message_buffer, main_pc,
                   sent, queued_at_stop,
                   get_call, returned, tickVars, viewVars>>

\* the timestamps of the queued messages
QueuedStamps == {message_queue[i].timestamp : i \in 1..Len(message_queue)}

\* what a returning stop() leaves behind: the queue is not touched; the log
\* queued_at_stop notes what is still queued if no dispatcher loop is alive
StopReturns ==
    /\ main_pc' = "idle"
    /\ queued_at_stop' =
           IF LiveThreads = {} THEN queued_at_stop \cup QueuedStamps ELSE queued_at_stop

\* mutant of StopBegin: stop() also empties the outbound queue
StopBeginFlushing ==
    /\ main_pc = "idle"
    /\ running' = FALSE
    /\ message_queue' = <<>>
    /\ IF processor_thread # 0
       THEN main_pc' = "join" /\ UNCHANGED queued_at_stop
       ELSE StopReturns
    /\ UNCHANGED <<subscribers, message_history, lock, processor_thread, nthreads,
                   pc, cur, pending, calls, agent_id, received_messages,
                   message_buffer, sent, get_call, returned, tickVars, viewVars>>

\* MessageBus.stop, up to the join: clears the flag, takes no lock; without a
\* processor_thread there is nothing to join and stop() returns
StopBegin ==
    /\ main_pc = "idle"
    /\ running' = FALSE
    /\ IF processor_thread # 0
       THEN main_pc' = "join" /\ UNCHANGED queued_at_stop
       ELSE StopReturns
    /\ UNCHANGED <<subscribers, message_history, lock, message_queue,
                   processor_thread, nthreads, pc, cur, pending, calls, agent_id,
                   received_messages, message_buffer, sent, get_call, returned, tickVars, viewVars>>

StopReturnEffect ==
    /\ StopReturns
    /\ UNCHANGED <<busVars, agent_id, received_messages, message_buffer, sent,
                   get_call, returned, tickVars, viewVars>>

\* processor_thread.join(timeout=1.0) returns because the thread has ended
StopJoined ==
    /\ main_pc = "join"
    /\ pc[processor_thread] = "done"
    /\ StopReturnEffect

\* processor_thread.join(timeout=1.0) returns because the timeout has elapsed
StopTimedOut ==
    /\ main_pc = "join"
    /\ pc[processor_thread] # "done"
    /\ StopReturnEffect

\* AgentCommunicator.__init__: the next communicator object, bound to id
NewCommunicator(c, id) ==
    /\ main_pc = "idle"
    /\ lock = 0
    /\ agent_id[c] = None
    /\ \A d \in Comms : d < c => agent_id[d] # None
    /\ agent_id' = [agent_id EXCEPT ![c] = id]
    /\ subscribers' = Subscribed(subscribers, id, c)
    /\ UNCHANGED <<message_history, lock, running, message_queue, processor_thread,
                   nthreads, pc, cur, pending, calls, received_messages,
                   message_buffer, main_pc, sent, queued_at_stop,
                   get_call, returned, tickVars, viewVars>>

\* MessageBus.subscribe(id, handler) with a handler that raises
SubscribeFaulty(id) ==
    /\ main_pc = "idle"
    /\ lock = 0
    /\ subscribers' = Subscribed(subscribers, id, Faulty)
    /\ UNCHANGED <<message_history, lock, running, message_queue, processor_thread,
                   nthreads, pc, cur, pending, calls, agent_id, received_messages,
                   message_buffer, main_pc, sent, queued_at_stop,
                   get_call, returned, tickVars, viewVars>>

\* mutant of Unsubscribe: the registry is changed without taking the lock
UnsubscribeUnlocked(id, cb) ==
    /\ main_pc = "idle"
    /\ subscribers' = Unsubscribed(subscribers, id, cb)
    /\ UNCHANGED <<message_history, lock, running, message_queue, processor_thread,
                   nthreads, pc, cur, pending, calls, agent_id, received_messages,
                   message_buffer, main_pc, sent, queued_at_stop,
                   get_call, returned, tickVars, viewVars>>

\* MessageBus.unsubscribe(id, callback) called directly; NoCallback stands
\* for the omitted callback
Unsubscribe(id, cb) ==
    /\ main_pc = "idle"
    /\ lock = 0
    /\ subscribers' = Unsubscribed(subscribers, id, cb)
    /\ UNCHANGED <<message_history, lock, running, message_queue, processor_thread,
                   nthreads, pc, cur, pending, calls, agent_id, received_messages,
                   message_buffer, main_pc, sent, queued_at_stop,
                   get_call, returned, tickVars, viewVars>>

\* mutant of Cleanup: only the communicator's own handler is unsubscribed,
\* unsubscribe(agent_id, self._on_message_received)
CleanupOwnHandler(c) ==
    /\ main_pc = "idle"
    /\ lock = 0
    /\ agent_id[c] # None
    /\ subscribers' = Unsubscribed(subscribers, agent_id[c], c)
    /\ UNCHANGED <<message_history, lock, running, message_queue, processor_thread,
                   nthreads, pc, cur, pending, calls, agent_id, received_messages,
                   message_buffer, main_pc, sent, queued_at_stop,
                   get_call, returned, tickVars, viewVars>>

\* AgentCommunicator.cleanup: unsubscribe(agent_id) without a callback
Cleanup(c) ==
    /\ main_pc = "idle"
    /\ lock = 0
    /\ agent_id[c] # None
    /\ subscribers' = Unsubscribed(subscribers, agent_id[c], NoCallback)
    /\ UNCHANGED <<message_history, lock, running, message_queue, processor_thread,
                   nthreads, pc, cur, pending, calls, agent_id, received_messages,
                   message_buffer, main_pc, sent, queued_at_stop,
                   get_call, returned, tickVars, viewVars>>

\* mutant of Outgoing: sender_id is filled with the recipient
OutgoingMisstamped(c, kind, recipient) ==
    Message(kind, recipient, recipient, ContentOf(kind), Len(sent) + 1)

\* AgentCommunicator.send_message: the Message it constructs, stamped with
\* the communicator's id and the time of the call
Outgoing(c, kind, recipient) ==
    Message(kind, agent_id[c], recipient, ContentOf(kind), Len(sent) + 1)

\* mutant of Send: send_message takes the bus lock before the put
SendLocked(c, kind, recipient) ==
    /\ main_pc = "idle"
    /\ agent_id[c] # None
    /\ lock = 0
    /\ message_queue' = Append(message_queue, Outgoing(c, kind, recipient))
    /\ sent' = Append(sent, [by |-> c, kind |-> kind, to |-> recipient, up |-> running,
                          tick |-> step_count, held |-> lock # 0])
    /\ UNCHANGED <<subscribers, message_history, lock, running, processor_thread,
                   nthreads, pc, cur, pending, calls, agent_id, received_messages,
                   message_buffer, main_pc, queued_at_stop,
                   get_call, returned, tickVars, viewVars>>

\* AgentCommunicator.send_message -> MessageBus.send_message (queue.put)
Send(c, kind, recipient) ==
    /\ main_pc = "idle"
    /\ agent_id[c] # None
    /\ message_queue' = Append(message_queue, Outgoing(c, kind, recipient))
    /\ sent' = Append(sent, [by |-> c, kind |-> kind, to |-> recipient, up |-> running,
                          tick |-> step_count, held |-> lock # 0])
    /\ UNCHANGED <<subscribers, message_history, lock, running, processor_thread,
                   nthreads, pc, cur, pending, calls, agent_id, received_messages,
                   message_buffer, main_pc, queued_at_stop,
                   get_call, returned, tickVars, viewVars>>

\* mutant of GetMessagesResult: the loop is left after the first message
GetMessagesFirstOnly(q) ==
    [messages |-> <<Head(q)>>, left |-> Tail(q)]

\* AgentCommunicator.get_messages once the first get has returned a message:
\* timeout is set to 0 and the loop takes every message of the mailbox q, in
\* queue order, until queue.Empty; `messages` is returned
GetMessagesResult(q) ==
    [messages |-> q, left |-> <<>>]

\* BookAgent.handle_message over the messages m that process_messages hands
\* to the agent of communicator c: a book agent counts one sale for every
\* purchase_completed message about its book (the model has one book); the
\* other agents keep no sales_count
Sales(c, m) ==
    IF agent_id[c] \in BookIds
    THEN Cardinality({i \in 1..Len(m) : m[i].message_type = "purchase_completed"})
    ELSE 0

\* BookstoreAgent.process_messages: get_messages(timeout=0.01) returns the
\* mailbox (nothing if it stays empty for the 0.01 s), handle_message appends
\* each message to message_buffer and, in a book agent, counts the sales
ProcessMessages(c) ==
    LET res == IF received_messages[c] = <<>>
               THEN [messages |-> <<>>, left |-> <<>>]
               ELSE GetMessagesResult(received_messages[c])
    IN /\ received_messages' = [received_messages EXCEPT ![c] = res.left]
       /\ message_buffer' = [message_buffer EXCEPT ![c] = @ \o res.messages]
       /\ sales_count' = [sales_count EXCEPT ![c] = @ + Sales(c, res.messages)]

\* process_messages called on an agent outside a tick
Drain(c) ==
    /\ main_pc = "idle"
    /\ agent_id[c] # None
    /\ ProcessMessages(c)
    /\ UNCHANGED <<busVars, agent_id, main_pc, sent, queued_at_stop,
                   get_call, returned, step_count, step_calls, run, model_running,
                   todo, stepping, tick_log, availableQuantity, purchased_books,
                   prior_agents, viewVars>>

\* get_messages returns `messages` to the caller
GetReturns(c, timeout, found, res) ==
    /\ main_pc' = "idle"
    /\ get_call' = [c |-> c, timeout |-> timeout, state |-> "returned",
                    found |-> found, messages |-> res.messages]
    /\ received_messages' = [received_messages EXCEPT ![c] = res.left]
    /\ returned' = [returned EXCEPT ![c] = @ \o res.messages]

\* AgentCommunicator.get_messages(timeout), called by the user thread on
\* communicator c: queue.get raises ValueError for a negative timeout, returns
\* a message at once if there is one, raises queue.Empty at once for timeout 0
\* on an empty mailbox, and otherwise blocks
GetMessages(c, timeout) ==
    /\ main_pc = "idle"
    /\ agent_id[c] # None
    /\ IF timeout = "negative"
       THEN /\ get_call' = [c |-> c, timeout |-> timeout, state |-> "raised",
                            found |-> Len(received_messages[c]), messages |-> <<>>]
            /\ UNCHANGED <<main_pc, received_messages, returned>>
       ELSE IF received_messages[c] # <<>>
       THEN GetReturns(c, timeout, Len(received_messages[c]),
                       GetMessagesResult(received_messages[c]))
       ELSE IF timeout = "zero"
       THEN GetReturns(c, timeout, 0, [messages |-> <<>>, left |-> <<>>])
       ELSE /\ main_pc' = "get_messages"
            /\ get_call' = [c |-> c, timeout |-> timeout, state |-> "blocked",
                            found |-> 0, messages |-> <<>>]
            /\ UNCHANGED <<received_messages, returned>>
    /\ UNCHANGED <<busVars, agent_id, message_buffer, sent, queued_at_stop, tickVars, viewVars>>

\* the blocked get is woken by an arrival: get_messages returns what is there
GetArrived ==
    /\ main_pc = "get_messages"
    /\ received_messages[get_call.c] # <<>>
    /\ GetReturns(get_call.c, get_call.timeout, 0,
                  GetMessagesResult(received_messages[get_call.c]))
    /\ UNCHANGED <<busVars, agent_id, message_buffer, sent, queued_at_stop, tickVars, viewVars>>

\* the timeout of the blocked get elapses: queue.Empty, `messages` is empty;
\* with timeout None the get has no deadline
GetExpired ==
    /\ main_pc = "get_messages"
    /\ get_call.timeout = "positive"
    /\ received_messages[get_call.c] = <<>>
    /\ GetReturns(get_call.c, get_call.timeout, 0, [messages |-> <<>>, left |-> <<>>])
    /\ UNCHANGED <<busVars, agent_id, message_buffer, sent, queued_at_stop, tickVars, viewVars>>

\* MessageBus.get_message_history called by the user thread (under the lock)
GetMessageHistoryCall(agent, kind, since, limit) ==
    /\ main_pc = "idle"
    /\ lock = 0
    /\ history_view' =
           [called |-> TRUE, agent_id |-> agent, message_type |-> kind,
            since |-> since, limit |-> limit,
            copied |-> ReturnsCopy(agent, kind, since, limit),
            messages |-> GetMessageHistory(message_history, agent, kind, since, limit)]
    /\ UNCHANGED <<busVars, agent_id, received_messages, message_buffer, main_pc,
                   sent, queued_at_stop, get_call, returned, tickVars, stats_view>>

\* MessageBus.get_stats called by the user thread (under the lock)
GetStatsCall ==
    /\ main_pc = "idle"
    /\ lock = 0
    /\ stats_view' = [called |-> TRUE, stats |-> GetStats(message_history, subscribers)]
    /\ UNCHANGED <<busVars, agent_id, received_messages, message_buffer, main_pc,
                   sent, queued_at_stop, get_call, returned, tickVars, history_view>>

\* ------------------------------------------------- tick-loop actions
\* The agents of the model: BookstoreAgent.__init__ gives each agent one
\* communicator; no code clears `active`, every agent is stepped. The
\* agents of earlier models are not in the schedule of this one.
Agents == {c \in Comms : agent_id[c] # None /\ c > prior_agents}

\* mutant of StepBegin: step() does not test `running`
StepBeginWhenStopped ==
    /\ main_pc = "idle"
    /\ step_calls' = step_calls + 1
    /\ step_count' = step_count + 1
    /\ todo' = Agents
    /\ tick_log' = [c \in Comms |-> <<>>]
    /\ main_pc' = "tick"
    /\ UNCHANGED <<busVars, agent_id, received_messages, message_buffer, sent,
                   queued_at_stop, get_call, returned, run, shopVars, model_running,
                   stepping, viewVars>>

\* BookstoreModel.step, up to schedule.step(): returns at once when the
\* model is not running; RandomActivation.step steps every agent of the
\* schedule once, in a random order
StepBegin ==
    /\ main_pc = "idle"
    /\ model_running
    /\ step_calls' = step_calls + 1
    /\ step_count' = step_count + 1
    /\ todo' = Agents
    /\ tick_log' = [c \in Comms |-> <<>>]
    /\ main_pc' = "tick"
    /\ UNCHANGED <<busVars, agent_id, received_messages, message_buffer, sent,
                   queued_at_stop, get_call, returned, run, shopVars, model_running,
                   stepping, viewVars>>

\* mutant of AgentStep: agent_action is invoked only when process_messages
\* has handled a message
AgentStepIfMessages(c) ==
    /\ main_pc = "tick"
    /\ c \in todo
    /\ todo' = todo \ {c}
    /\ ProcessMessages(c)
    /\ tick_log' = [tick_log EXCEPT ![c] = Append(@, "process_messages")]
    /\ IF received_messages[c] = <<>>
       THEN UNCHANGED <<stepping, main_pc>>
       ELSE stepping' = c /\ main_pc' = "action"
    /\ UNCHANGED <<busVars, agent_id, sent, queued_at_stop, get_call, returned,
                   step_count, step_calls, run, model_running, availableQuantity,
                   purchased_books, prior_agents, viewVars>>

\* the scheduler calls BookstoreAgent.step on the next agent: process_messages,
\* then agent_action begins
AgentStep(c) ==
    /\ main_pc = "tick"
    /\ c \in todo
    /\ todo' = todo \ {c}
    /\ ProcessMessages(c)
    /\ tick_log' = [tick_log EXCEPT ![c] = Append(@, "process_messages")]
    /\ stepping' = c
    /\ main_pc' = "action"
    /\ UNCHANGED <<busVars, agent_id, sent, queued_at_stop, get_call, returned,
                   step_count, step_calls, run, model_running, availableQuantity,
                   purchased_books, prior_agents, viewVars>>

\* agent_action sends a message (communicator.send_message / broadcast)
AgentSend(kind, recipient) ==
    /\ main_pc = "action"
    /\ message_queue' = Append(message_queue, Outgoing(stepping, kind, recipient))
    /\ sent' = Append(sent, [by |-> stepping, kind |-> kind, to |-> recipient,
                             up |-> running, tick |-> step_count, held |-> lock # 0])
    /\ UNCHANGED <<subscribers, message_history, lock, running, processor_thread,
                   nthreads, pc, cur, pending, calls, agent_id, received_messages,
                   message_buffer, main_pc, queued_at_stop, get_call, returned,
                   tickVars, viewVars>>

\* agent_action returns, and with it BookstoreAgent.step
AgentActionEnd ==
    /\ main_pc = "action"
    /\ tick_log' = [tick_log EXCEPT ![stepping] = Append(@, "agent_action")]
    /\ stepping' = 0
    /\ main_pc' = "tick"
    /\ UNCHANGED <<busVars, agent_id, received_messages, message_buffer, sent,
                   queued_at_stop, get_call, returned, step_count, step_calls, run,
                   shopVars,
                   model_running, todo, viewVars>>

\* mutant of StepEnd: check_simulation_status ends the simulation only past
\* StepLimit steps
StepEndPastLimit ==
    /\ main_pc = "tick"
    /\ todo = {}
    /\ main_pc' = "idle"
    /\ model_running' =
           IF step_count % StatusEvery = 0 /\ step_count > StepLimit
           THEN FALSE ELSE model_running
    /\ UNCHANGED <<busVars, agent_id, received_messages, message_buffer, sent,
                   queued_at_stop, get_call, returned, step_count, step_calls, run,
                   shopVars, todo,
                   stepping, tick_log, viewVars>>

\* the two broadcasts an agent sends after it has changed the inventory:
\* send_message(kind, ...) with no recipient, then send_inventory_update
Announce(c, kind) ==
    /\ message_queue' = message_queue \o
           <<Message(kind, agent_id[c], None, ContentOf(kind), Len(sent) + 1),
             Message("inventory_update", agent_id[c], None,
                     ContentOf("inventory_update"), Len(sent) + 2)>>
    /\ sent' = sent \o
           <<[by |-> c, kind |-> kind, to |-> None, up |-> running,
              tick |-> step_count, held |-> lock # 0],
             [by |-> c, kind |-> "inventory_update", to |-> None, up |-> running,
              tick |-> step_count, held |-> lock # 0]>>

\* mutant of AttemptPurchase: the purchase is made without looking at the
\* available quantity
AttemptPurchaseUnchecked ==
    /\ main_pc = "action"
    /\ agent_id[stepping] \in CustomerIds
    /\ availableQuantity' = availableQuantity - 1
    /\ purchased_books' = [purchased_books EXCEPT ![stepping] = @ + 1]
    /\ Announce(stepping, "purchase_completed")
    /\ tick_log' = [tick_log EXCEPT ![stepping] = Append(@, "agent_action")]
    /\ stepping' = 0
    /\ main_pc' = "tick"
    /\ UNCHANGED <<subscribers, message_history, lock, running, processor_thread,
                   nthreads, pc, cur, pending, calls, agent_id, received_messages,
                   message_buffer, queued_at_stop, get_call, returned, step_count,
                   step_calls, run, sales_count, prior_agents, model_running, todo,
                   viewVars>>

\* CustomerAgent.agent_action reaches attempt_purchase with a book of its
\* shopping list that it can afford: with a copy available make_purchase
\* takes one from the inventory, records the purchase and broadcasts
\* purchase_completed and the inventory update; out of stock nothing is
\* bought; agent_action then returns
AttemptPurchase ==
    /\ main_pc = "action"
    /\ agent_id[stepping] \in CustomerIds
    /\ IF availableQuantity > 0
       THEN /\ availableQuantity' = availableQuantity - 1
            /\ purchased_books' = [purchased_books EXCEPT ![stepping] = @ + 1]
            /\ Announce(stepping, "purchase_completed")
       ELSE UNCHANGED <<availableQuantity, purchased_books, message_queue, sent>>
    /\ tick_log' = [tick_log EXCEPT ![stepping] = Append(@, "agent_action")]
    /\ stepping' = 0
    /\ main_pc' = "tick"
    /\ UNCHANGED <<subscribers, message_history, lock, running, processor_thread,
                   nthreads, pc, cur, pending, calls, agent_id, received_messages,
                   message_buffer, queued_at_stop, get_call, returned, step_count,
                   step_calls, run, sales_count, prior_agents, model_running, todo,
                   viewVars>>

\* EmployeeAgent.agent_action of the inventory specialist reaches
\* check_inventory_levels: if the book is at or below its reorder level
\* restock_book adds restock_amount copies and broadcasts restock_completed
\* and the inventory update; agent_action then returns
CheckInventoryLevels ==
    /\ main_pc = "action"
    /\ agent_id[stepping] \in EmployeeIds
    /\ IF availableQuantity <= ReorderLevel
       THEN /\ availableQuantity' = availableQuantity + RestockAmount
            /\ Announce(stepping, "restock_completed")
       ELSE UNCHANGED <<availableQuantity, message_queue, sent>>
    /\ tick_log' = [tick_log EXCEPT ![stepping] = Append(@, "agent_action")]
    /\ stepping' = 0
    /\ main_pc' = "tick"
    /\ UNCHANGED <<subscribers, message_history, lock, running, processor_thread,
                   nthreads, pc, cur, pending, calls, agent_id, received_messages,
                   message_buffer, queued_at_stop, get_call, returned, step_count,
                   step_calls, run, purchased_books, sales_count, prior_agents,
                   model_running, todo, viewVars>>

\* schedule.step() has stepped every agent; BookstoreModel.step goes on to
\* check_simulation_status every StatusEvery steps, which ends the
\* simulation at StepLimit steps
StepEnd ==
    /\ main_pc = "tick"
    /\ todo = {}
    /\ main_pc' = "idle"
    /\ model_running' =
           IF step_count % StatusEvery = 0 /\ step_count >= StepLimit
           THEN FALSE ELSE model_running
    /\ UNCHANGED <<busVars, agent_id, received_messages, message_buffer, sent,
                   queued_at_stop, get_call, returned, step_count, step_calls, run,
                   shopVars, todo,
                   stepping, tick_log, viewVars>>

\* ------------------------------------------------ dispatcher actions
\* `while self.running:`
LoopTest(t) ==
    /\ pc[t] = "loop"
    /\ pc' = [pc EXCEPT ![t] = IF running THEN "get" ELSE "done"]
    /\ UNCHANGED <<subscribers, message_history, lock, running, message_queue,
                   processor_thread, nthreads, cur, pending, calls, agent_id,
                   received_messages, message_buffer, main_pc, sent, queued_at_stop,
                   get_call, returned, tickVars, viewVars>>

\* mutant of GetMessage: the loop reads the head of the queue and leaves it
\* queued
GetMessagePeek(t) ==
    /\ pc[t] = "get"
    /\ message_queue # <<>>
    /\ cur' = [cur EXCEPT ![t] = Head(message_queue)]
    /\ pc' = [pc EXCEPT ![t] = "deliver"]
    /\ UNCHANGED <<subscribers, message_history, lock, running, message_queue,
                   processor_thread, nthreads, pending, calls, agent_id,
                   received_messages, message_buffer, main_pc, sent, queued_at_stop,
                   get_call, returned, tickVars, viewVars>>

\* `message = self.message_queue.get(timeout=0.1)` returns a message
GetMessage(t) ==
    /\ pc[t] = "get"
    /\ message_queue # <<>>
    /\ cur' = [cur EXCEPT ![t] = Head(message_queue)]
    /\ message_queue' = Tail(message_queue)
    /\ pc' = [pc EXCEPT ![t] = "deliver"]
    /\ UNCHANGED <<subscribers, message_history, lock, running, processor_thread,
                   nthreads, pending, calls, agent_id, received_messages,
                   message_buffer, main_pc, sent, queued_at_stop,
                   get_call, returned, tickVars, viewVars>>

\* mutant of GetTimeout: get() is called without a timeout and blocks on an
\* empty queue
GetBlocks(t) ==
    /\ FALSE
    /\ UNCHANGED vars

\* the get times out: queue.Empty, `continue`
GetTimeout(t) ==
    /\ pc[t] = "get"
    /\ message_queue = <<>>
    /\ pc' = [pc EXCEPT ![t] = "loop"]
    /\ UNCHANGED <<subscribers, message_history, lock, running, message_queue,
                   processor_thread, nthreads, cur, pending, calls, agent_id,
                   received_messages, message_buffer, main_pc, sent, queued_at_stop,
                   get_call, returned, tickVars, viewVars>>

\* mutant of DeliverBegin: the fan-out starts without the history append
DeliverBeginUnrecorded(t) ==
    /\ pc[t] = "deliver"
    /\ lock = 0
    /\ lock' = t
    /\ pending' = DeliveryCalls(subscribers, cur[t])
    /\ calls' = <<>>
    /\ pc' = [pc EXCEPT ![t] = "fanout"]
    /\ UNCHANGED <<subscribers, message_history, running, message_queue,
                   processor_thread, nthreads, cur, agent_id, received_messages,
                   message_buffer, main_pc, sent, queued_at_stop,
                   get_call, returned, tickVars, viewVars>>

\* _deliver_message: takes the lock, appends to the history, trims it, and
\* starts the loop over the callbacks
DeliverBegin(t) ==
    /\ pc[t] = "deliver"
    /\ lock = 0
    /\ lock' = t
    /\ message_history' = KeepLast(Append(message_history, cur[t]))
    /\ pending' = DeliveryCalls(subscribers, cur[t])
    /\ calls' = <<>>
    /\ pc' = [pc EXCEPT ![t] = "fanout"]
    /\ UNCHANGED <<subscribers, running, message_queue, processor_thread, nthreads,
                   cur, agent_id, received_messages, message_buffer, main_pc, sent,
                   queued_at_stop,
                   get_call, returned, tickVars, viewVars>>

\* mutant of OnMessageReceived: received_messages is one queue shared by all
\* communicators (a class attribute)
OnMessageReceivedShared(c, m) ==
    [d \in Comms |-> Append(received_messages[d], m)]

\* mutant of OnMessageReceived: the mailbox gets a copy of the message built
\* without its content
OnMessageReceivedCopy(c, m) ==
    [received_messages EXCEPT ![c] =
        Append(@, Message(m.message_type, m.sender_id, m.recipient_id, None, m.timestamp))]

\* AgentCommunicator._on_message_received, the mailboxes after the call
OnMessageReceived(c, m) ==
    [received_messages EXCEPT ![c] = Append(@, m)]

\* mutant of AfterRaise: the try/except encloses the loop, a raise ends it
AfterRaiseAbort(rest) == <<>>

\* `except Exception as e: print(...)` inside the for loop: the callbacks
\* that are still called after one callback has raised
AfterRaise(rest) == rest

\* mutant of PcAfterRaise: no except clause catches the exception, the
\* dispatcher thread ends
PcAfterRaiseUncaught == "done"

\* where the dispatcher is after a callback has raised: the except clause is
\* inside the loop over the callbacks, the thread stays in the fan-out
PcAfterRaise == "fanout"

\* mutant of Invoke: the mailboxes are bounded queues (maxsize 1), the put of
\* a communicator's handler blocks while its mailbox is full
InvokeBlocking(t) ==
    /\ pc[t] = "fanout"
    /\ pending # <<>>
    /\ Head(pending).cb \in Comms => Len(received_messages[Head(pending).cb]) < 1
    /\ pc' = [pc EXCEPT ![t] = IF Head(pending).cb = Faulty THEN PcAfterRaise ELSE "fanout"]
    /\ received_messages' =
           IF Head(pending).cb \in Comms
           THEN OnMessageReceived(Head(pending).cb, cur[t])
           ELSE received_messages
    /\ calls' = Append(calls, Head(pending))
    /\ pending' = IF Head(pending).cb = Faulty THEN AfterRaise(Tail(pending)) ELSE Tail(pending)
    /\ UNCHANGED <<subscribers, message_history, lock, running, message_queue,
                   processor_thread, nthreads, cur, agent_id, message_buffer,
                   main_pc, sent, queued_at_stop,
                   get_call, returned, tickVars, viewVars>>

\* one `callback(message)` inside try/except: a communicator's handler puts
\* the message in its mailbox, the raising handler's exception is caught
Invoke(t) ==
    /\ pc[t] = "fanout"
    /\ pending # <<>>
    /\ pc' = [pc EXCEPT ![t] = IF Head(pending).cb = Faulty THEN PcAfterRaise ELSE "fanout"]
    /\ received_messages' =
           IF Head(pending).cb \in Comms
           THEN OnMessageReceived(Head(pending).cb, cur[t])
           ELSE received_messages
    /\ calls' = Append(calls, Head(pending))
    /\ pending' = IF Head(pending).cb = Faulty THEN AfterRaise(Tail(pending)) ELSE Tail(pending)
    /\ UNCHANGED <<subscribers, message_history, lock, running, message_queue,
                   processor_thread, nthreads, cur, agent_id, message_buffer,
                   main_pc, sent, queued_at_stop,
                   get_call, returned, tickVars, viewVars>>

\* mutant of DeliverEnd: after the fan-out the message is put back on the
\* queue
DeliverEndRequeue(t) ==
    /\ pc[t] = "fanout"
    /\ pending = <<>>
    /\ lock' = 0
    /\ calls' = <<>>
    /\ message_queue' = Append(message_queue, cur[t])
    /\ cur' = [cur EXCEPT ![t] = NoMsg]
    /\ pc' = [pc EXCEPT ![t] = "loop"]
    /\ UNCHANGED <<subscribers, message_history, running,
                   processor_thread, nthreads, pending, agent_id, received_messages,
                   message_buffer, main_pc, sent, queued_at_stop,
                   get_call, returned, tickVars, viewVars>>

\* the loops are over: the lock is released, task_done, back to the while
DeliverEnd(t) ==
    /\ pc[t] = "fanout"
    /\ pending = <<>>
    /\ lock' = 0
    /\ calls' = <<>>
    /\ cur' = [cur EXCEPT ![t] = NoMsg]
    /\ pc' = [pc EXCEPT ![t] = "loop"]
    /\ UNCHANGED <<subscribers, message_history, running, message_queue,
                   processor_thread, nthreads, pending, agent_id, received_messages,
                   message_buffer, main_pc, sent, queued_at_stop,
                   get_call, returned, tickVars, viewVars>>

Dispatcher(t) ==
    \/ LoopTest(t)
    \/ GetMessage(t)
    \/ GetTimeout(t)
    \/ DeliverBegin(t)
    \/ Invoke(t)
    \/ DeliverEnd(t)

\* ----------------------------------------------------------------- Next
Registry(maxc) ==
    \/ \E c \in 1..maxc, id \in NextIds : NewCommunicator(c, id)
    \/ \E id \in NextIds : FaultyCount < MaxRaw /\ SubscribeFaulty(id)
    \/ \E c \in 1..maxc : Cleanup(c)

Sends(maxs, kinds) ==
    \E c \in Comms, k \in kinds, r \in Ids \cup {None} : Len(sent) < maxs /\ Send(c, k, r)

\* The bus with one dispatcher loop: registry changes, sends and delivery.
Next ==
    \/ nthreads = 0 /\ Start
    \/ Registry(MaxComms)
    \/ Sends(MaxSends, Kinds)
    \/ \E t \in Threads : Dispatcher(t)

Spec == Init /\ [][Next]_vars

\* The state after MessageBus(), AgentCommunicator("A", bus), subscribe("B", a
\* raising handler) and AgentCommunicator("B", bus): the bus is not started.
InitLife ==
    /\ subscribers = <<[id |-> "A", cbs |-> <<1>>], [id |-> "B", cbs |-> <<Faulty, 2>>]>>
    /\ message_history = <<>>
    /\ lock = 0
    /\ running = FALSE
    /\ message_queue = <<>>
    /\ processor_thread = 0
    /\ nthreads = 0
    /\ pc = [t \in Threads |-> "none"]
    /\ cur = [t \in Threads |-> NoMsg]
    /\ pending = <<>>
    /\ calls = <<>>
    /\ agent_id = [c \in Comms |-> IF c = 1 THEN "A" ELSE IF c = 2 THEN "B" ELSE None]
    /\ received_messages = [c \in Comms |-> <<>>]
    /\ message_buffer = [c \in Comms |-> <<>>]
    /\ main_pc = "idle"
    /\ sent = <<>>
    /\ queued_at_stop = {}
    /\ get_call = NoCall
    /\ returned = [c \in Comms |-> <<>>]
    /\ NoTick
    /\ NoView

\* The bus life cycle: start() and stop() in any order, sends and drains.
NextLife ==
    \/ nthreads < MaxThreads /\ Start
    \/ StopBegin
    \/ StopJoined
    \/ StopTimedOut
    \/ Sends(MaxLifeSends, Kinds)
    \/ \E c \in Comms : Drain(c)
    \/ \E t \in Threads : Dispatcher(t)

SpecLife == InitLife /\ [][NextLife]_vars

\* A launched dispatcher thread keeps being scheduled, and join(timeout=1.0)
\* returns.
Fairness ==
    /\ \A t \in Threads : WF_vars(Dispatcher(t))
    /\ WF_vars(StopJoined \/ StopTimedOut)

\* The life cycle of a bus that is started once: start(), stop(), sends,
\* drains, and the dispatcher loop under fair scheduling.
NextFair ==
    \/ nthreads = 0 /\ Start
    \/ StopBegin
    \/ StopJoined
    \/ StopTimedOut
    \/ Sends(MaxLifeSends, Kinds)
    \/ \E c \in Comms : Drain(c)
    \/ \E t \in Threads : Dispatcher(t)

SpecFair == InitLife /\ [][NextFair]_vars /\ Fairness

\* The state after MessageBus(), AgentCommunicator("A", bus), subscribe("B", a
\* raising handler), start(), and HistFill directed messages from A to B, each
\* sent and dispatched before the next: the loop is back at its while test.
InitHist ==
    /\ subscribers = <<[id |-> "A", cbs |-> <<1>>], [id |-> "B", cbs |-> <<Faulty>>]>>
    /\ message_history = [i \in 1..HistFill |-> Message("purchase_request", "A", "B", ContentOf("purchase_request"), i)]
    /\ lock = 0
    /\ running = TRUE
    /\ message_queue = <<>>
    /\ processor_thread = 1
    /\ nthreads = 1
    /\ pc = [t \in Threads |-> IF t = 1 THEN "loop" ELSE "none"]
    /\ cur = [t \in Threads |-> NoMsg]
    /\ pending = <<>>
    /\ calls = <<>>
    /\ agent_id = [c \in Comms |-> IF c = 1 THEN "A" ELSE None]
    /\ received_messages = [c \in Comms |-> <<>>]
    /\ message_buffer = [c \in Comms |-> <<>>]
    /\ main_pc = "idle"
    /\ sent = [i \in 1..HistFill |-> [by |-> 1, kind |-> "purchase_request", to |-> "B", up |-> TRUE, tick |-> 0, held |-> FALSE]]
    /\ queued_at_stop = {}
    /\ get_call = NoCall
    /\ returned = [c \in Comms |-> <<>>]
    /\ NoTick
    /\ NoView

\* One dispatcher loop and further messages from A, to B or broadcast.
NextHist ==
    \/ \E r \in {"B", None} :
           Len(sent) < HistFill + HistExtra /\ Send(1, "purchase_request", r)
    \/ \E t \in Threads : Dispatcher(t)

SpecHist == InitHist /\ [][NextHist]_vars

\* Direct get_messages calls on the two communicators of the fixture while
\* one dispatcher loop delivers messages from A, to B or broadcast.
NextDrain ==
    \/ nthreads = 0 /\ Start
    \/ \E c \in Comms, r \in {"B", None} :
           Len(sent) < MaxDrainSends /\ Send(c, "purchase_request", r)
    \/ \E c \in Comms, timeout \in Timeouts : GetMessages(c, timeout)
    \/ GetArrived
    \/ GetExpired
    \/ \E t \in Threads : Dispatcher(t)

SpecDrain == InitLife /\ [][NextDrain]_vars

\* The state after BookstoreModel.__init__ with two agents A and B: the bus
\* is started, the agents' communicators are subscribed, no step taken yet.
InitTick ==
    /\ subscribers = <<[id |-> "A", cbs |-> <<1>>], [id |-> "B", cbs |-> <<2>>]>>
    /\ message_history = <<>>
    /\ lock = 0
    /\ running = TRUE
    /\ message_queue = <<>>
    /\ processor_thread = 1
    /\ nthreads = 1
    /\ pc = [t \in Threads |-> IF t = 1 THEN "loop" ELSE "none"]
    /\ cur = [t \in Threads |-> NoMsg]
    /\ pending = <<>>
    /\ calls = <<>>
    /\ agent_id = [c \in Comms |-> IF c = 1 THEN "A" ELSE IF c = 2 THEN "B" ELSE None]
    /\ received_messages = [c \in Comms |-> <<>>]
    /\ message_buffer = [c \in Comms |-> <<>>]
    /\ main_pc = "idle"
    /\ sent = <<>>
    /\ queued_at_stop = {}
    /\ get_call = NoCall
    /\ returned = [c \in Comms |-> <<>>]
    /\ step_count = 0
    /\ step_calls = 0
    /\ run = NoRun
    /\ NoShop
    /\ model_running = TRUE
    /\ todo = {}
    /\ stepping = 0
    /\ tick_log = [c \in Comms |-> <<>>]
    /\ NoView

\* The tick loop beside the dispatcher loop.
NextTick ==
    \/ step_count < MaxTicks /\ StepBegin
    \/ \E c \in Comms : AgentStep(c)
    \/ \E k \in Kinds, r \in {"A", "B", None} :
           Len(sent) < MaxTickSends /\ AgentSend(k, r)
    \/ AgentActionEnd
    \/ StepEnd
    \/ \E t \in Threads : Dispatcher(t)

SpecTick == InitTick /\ [][NextTick]_vars

\* get_message_history called with every combination of arguments while one
\* dispatcher loop fills the history with messages from A to B and
\* broadcasts from B.
NextQuery ==
    \/ nthreads = 0 /\ Start
    \/ \E c \in Comms, k \in Kinds :
           /\ Len(sent) < MaxQuerySends
           /\ running
           /\ Send(c, k, IF c = 1 THEN "B" ELSE None)
    \/ \E agent \in {None, "A", "B"}, kind \in {None} \cup Kinds,
          since \in {0, MaxQuerySends}, limit \in (-1)..MaxLimit :
           GetMessageHistoryCall(agent, kind, since, limit)
    \/ \E t \in Threads : Dispatcher(t)

SpecQuery == InitLife /\ [][NextQuery]_vars

\* get_message_history and get_stats calls while, from the state of
\* InitHist, further messages are dispatched past the history cap and A's
\* communicator is cleaned up.
NextView ==
    \/ \E r \in {"B", None} :
           Len(sent) < HistFill + MaxViewSends /\ Send(1, "purchase_request", r)
    \/ Cleanup(1)
    \/ \E agent \in {None, "B"}, limit \in 0..1 :
           GetMessageHistoryCall(agent, None, 0, limit)
    \/ GetStatsCall
    \/ \E t \in Threads : Dispatcher(t)

SpecView == InitHist /\ [][NextView]_vars

\* The registry alone: communicators are constructed, the raising handler
\* is subscribed (also twice, also under one id), and unsubscribe is called
\* with every id and handler, registered or not.
NextRegistry ==
    \/ \E c \in Comms, id \in NextIds : NewCommunicator(c, id)
    \/ \E id \in NextIds : FaultyCount < MaxRegRaw /\ SubscribeFaulty(id)
    \/ \E id \in Ids, cb \in Handlers \cup {NoCallback} : Unsubscribe(id, cb)

SpecRegistry == Init /\ [][NextRegistry]_vars

\* Registry changes beside the dispatcher loop: from the fixture, a third
\* communicator and the raising handler are subscribed and handlers and ids
\* are unsubscribed while messages from A, to B or broadcast, are dispatched.
NextSnapshot ==
    \/ nthreads = 0 /\ Start
    \/ \E r \in {"B", None} :
           Len(sent) < MaxSnapSends /\ Send(1, "purchase_request", r)
    \/ \E id \in {"B", "C"} : NewCommunicator(3, id)
    \/ FaultyCount < MaxRaw /\ SubscribeFaulty("B")
    \/ \E id \in {"A", "B"}, cb \in {NoCallback, Faulty, 2} : Unsubscribe(id, cb)
    \/ \E t \in Threads : Dispatcher(t)

SpecSnapshot == InitLife /\ [][NextSnapshot]_vars

\* Communicators are cleaned up and drained (get_messages(0)) while one
\* dispatcher loop delivers messages from A, to B or broadcast.
NextCleanup ==
    \/ nthreads = 0 /\ Start
    \/ \E r \in {"B", None} :
           Len(sent) < MaxCleanupSends /\ Send(1, "purchase_request", r)
    \/ \E c \in Comms : Cleanup(c)
    \/ \E c \in Comms : GetMessages(c, "zero")
    \/ \E t \in Threads : Dispatcher(t)

SpecCleanup == InitLife /\ [][NextCleanup]_vars

\* BookstoreModel.step on a model that is not running: `if not self.running:
\* return`
StepNotRunning ==
    /\ main_pc = "idle"
    /\ ~model_running
    /\ step_calls' = step_calls + 1
    /\ UNCHANGED <<busVars, agent_id, received_messages, message_buffer, main_pc,
                   sent, queued_at_stop, get_call, returned, step_count, run, shopVars,
                   model_running, todo, stepping, tick_log, viewVars>>

\* BookstoreModel.run_simulation(steps) is called
RunSimulation(steps) ==
    /\ main_pc = "idle"
    /\ ~run.active
    /\ run' = [active |-> TRUE, steps |-> steps, count |-> step_count,
               calls |-> step_calls]
    /\ UNCHANGED <<busVars, agent_id, received_messages, message_buffer, main_pc,
                   sent, queued_at_stop, get_call, returned, step_count,
                   step_calls, shopVars, model_running, todo, stepping, tick_log,
                   viewVars>>

\* one iteration of `for i in range(steps)`: the model is running, so the
\* loop does not break and calls self.step()
RunIteration ==
    /\ run.active
    /\ step_calls - run.calls < run.steps
    /\ StepBegin

\* run_simulation leaves its loop, the range exhausted or at the break, and
\* returns
RunReturn ==
    /\ main_pc = "idle"
    /\ run.active
    /\ step_calls - run.calls >= run.steps \/ ~model_running
    /\ run' = [run EXCEPT !.active = FALSE]
    /\ UNCHANGED <<busVars, agent_id, received_messages, message_buffer, main_pc,
                   sent, queued_at_stop, get_call, returned, step_count,
                   step_calls, shopVars, model_running, todo, stepping, tick_log,
                   viewVars>>

\* The state of a model with two agents A and B that has run all but the
\* last StepsLeft of its StepLimit steps, no agent having sent a message.
InitStep ==
    /\ subscribers = <<[id |-> "A", cbs |-> <<1>>], [id |-> "B", cbs |-> <<2>>]>>
    /\ message_history = <<>>
    /\ lock = 0
    /\ running = TRUE
    /\ message_queue = <<>>
    /\ processor_thread = 1
    /\ nthreads = 1
    /\ pc = [t \in Threads |-> IF t = 1 THEN "loop" ELSE "none"]
    /\ cur = [t \in Threads |-> NoMsg]
    /\ pending = <<>>
    /\ calls = <<>>
    /\ agent_id = [c \in Comms |-> IF c = 1 THEN "A" ELSE IF c = 2 THEN "B" ELSE None]
    /\ received_messages = [c \in Comms |-> <<>>]
    /\ message_buffer = [c \in Comms |-> <<>>]
    /\ main_pc = "idle"
    /\ sent = <<>>
    /\ queued_at_stop = {}
    /\ get_call = NoCall
    /\ returned = [c \in Comms |-> <<>>]
    /\ step_count = StepLimit - StepsLeft
    /\ step_calls = StepLimit - StepsLeft
    /\ run = NoRun
    /\ NoShop
    /\ model_running = TRUE
    /\ todo = {}
    /\ stepping = 0
    /\ tick_log = [c \in Comms |-> <<>>]
    /\ NoView

\* The last steps of the tick loop, which end the simulation, and step()
\* calls made after that.
NextStep ==
    \/ step_calls < StepLimit + MaxIdleSteps /\ StepBegin
    \/ step_calls < StepLimit + MaxIdleSteps /\ StepNotRunning
    \/ \E c \in Comms : AgentStep(c)
    \/ \E r \in {"B", None} :
           Len(sent) < MaxStepSends /\ AgentSend("purchase_request", r)
    \/ AgentActionEnd
    \/ StepEnd
    \/ \E t \in Threads : Dispatcher(t)

SpecStep == InitStep /\ [][NextStep]_vars

\* run_simulation calls of up to MaxRunSteps steps on a model that is
\* StepsLeft steps short of StepLimit, and step() calls between them.
NextRun ==
    \/ \E steps \in 0..MaxRunSteps : RunSimulation(steps)
    \/ step_calls < StepLimit + MaxIdleSteps /\ RunIteration
    \/ RunReturn
    \/ ~run.active /\ step_calls < StepLimit + MaxIdleSteps /\ StepBegin
    \/ ~run.active /\ step_calls < StepLimit + MaxIdleSteps /\ StepNotRunning
    \/ \E c \in Comms : AgentStep(c)
    \/ \E r \in {"B", None} :
           Len(sent) < MaxStepSends /\ AgentSend("purchase_request", r)
    \/ AgentActionEnd
    \/ StepEnd
    \/ \E t \in Threads : Dispatcher(t)

SpecRun == InitStep /\ [][NextRun]_vars

\* The calls that take the bus lock (subscribe, unsubscribe,
\* get_message_history, get_stats) made by the user thread beside a running
\* dispatcher loop, with communicator handlers only; A sends, to B or
\* broadcast, and B drains.
NextLock ==
    \/ \E r \in {"B", None} :
           Len(sent) < MaxLockSends /\ Send(1, "purchase_request", r)
    \/ Drain(2)
    \/ NewCommunicator(3, "C")
    \/ Cleanup(1)
    \/ GetMessageHistoryCall(None, None, 0, 0)
    \/ GetStatsCall
    \/ \E t \in Threads : Dispatcher(t)

\* a launched dispatcher thread keeps being scheduled
SpecLock == InitTick /\ [][NextLock]_vars /\ \A t \in Threads : WF_vars(Dispatcher(t))

\* A model with a customer A, a book B and an inventory specialist C, its
\* bus running, LowStock copies of the book left.
InitShop ==
    /\ subscribers = <<[id |-> "A", cbs |-> <<1>>], [id |-> "B", cbs |-> <<2>>],
                       [id |-> "C", cbs |-> <<3>>]>>
    /\ message_history = <<>>
    /\ lock = 0
    /\ running = TRUE
    /\ message_queue = <<>>
    /\ processor_thread = 1
    /\ nthreads = 1
    /\ pc = [t \in Threads |-> IF t = 1 THEN "loop" ELSE "none"]
    /\ cur = [t \in Threads |-> NoMsg]
    /\ pending = <<>>
    /\ calls = <<>>
    /\ agent_id = [c \in Comms |-> IF c = 1 THEN "A" ELSE IF c = 2 THEN "B"
                                   ELSE IF c = 3 THEN "C" ELSE None]
    /\ received_messages = [c \in Comms |-> <<>>]
    /\ message_buffer = [c \in Comms |-> <<>>]
    /\ main_pc = "idle"
    /\ sent = <<>>
    /\ queued_at_stop = {}
    /\ get_call = NoCall
    /\ returned = [c \in Comms |-> <<>>]
    /\ step_count = 0
    /\ step_calls = 0
    /\ run = NoRun
    /\ availableQuantity = LowStock
    /\ purchased_books = [c \in Comms |-> 0]
    /\ sales_count = [c \in Comms |-> 0]
    /\ prior_agents = 0
    /\ model_running = TRUE
    /\ todo = {}
    /\ stepping = 0
    /\ tick_log = [c \in Comms |-> <<>>]
    /\ NoView

\* The tick loop of the shop beside the dispatcher loop: customers buy,
\* the inventory specialist restocks.
NextShop ==
    \/ step_count < MaxShopTicks /\ StepBegin
    \/ \E c \in Comms : AgentStep(c)
    \/ AttemptPurchase
    \/ CheckInventoryLevels
    \/ AgentActionEnd
    \/ StepEnd
    \/ \E t \in Threads : Dispatcher(t)

SpecShop == InitShop /\ [][NextShop]_vars

\* BookstoreModel.cleanup: every agent's communicator unsubscribes its id,
\* then the bus is stopped if it is running (stop() goes on to its join)
ModelCleanup ==
    /\ main_pc = "idle"
    /\ lock = 0
    /\ subscribers' = SelectSeq(subscribers,
                                LAMBDA e : \A c \in Agents : e.id # agent_id[c])
    /\ IF running
       THEN /\ running' = FALSE
            /\ IF processor_thread # 0
               THEN main_pc' = "join" /\ UNCHANGED queued_at_stop
               ELSE StopReturns
       ELSE UNCHANGED <<running, main_pc, queued_at_stop>>
    /\ UNCHANGED <<message_history, lock, message_queue, processor_thread,
                   nthreads, pc, cur, pending, calls, agent_id, received_messages,
                   message_buffer, sent, get_call, returned, tickVars, viewVars>>

\* BookstoreModel.__init__ of a further model, up to the start of the bus:
\* create_sample_data fills the inventory again, and the process-wide bus
\* is started if it is not running
ModelInit ==
    /\ main_pc = "idle"
    /\ availableQuantity' = SampleStock
    /\ IF running
       THEN UNCHANGED <<running, nthreads, processor_thread, pc>>
       ELSE /\ nthreads < MaxThreads
            /\ running' = TRUE
            /\ nthreads' = nthreads + 1
            /\ processor_thread' = nthreads + 1
            /\ pc' = [pc EXCEPT ![nthreads + 1] = "loop"]
    /\ main_pc' = "create_agents"
    /\ UNCHANGED <<subscribers, message_history, lock, message_queue, cur, pending,
                   calls, agent_id, received_messages, message_buffer, sent,
                   queued_at_stop, get_call, returned, step_count, step_calls, run,
                   purchased_books, sales_count, prior_agents, model_running, todo,
                   stepping, tick_log, viewVars>>

\* BookstoreModel.__init__(num_customers=0, num_employees=0) goes on:
\* create_agents makes the book agent, whose new communicator subscribes
\* under the book's id; the agents of the earlier model are not in the new
\* schedule; step_count is 0 and the model is running
CreateAgents ==
    /\ main_pc = "create_agents"
    /\ lock = 0
    /\ LET c == CHOOSE d \in Comms : agent_id[d] = None /\
                                     \A b \in Comms : b < d => agent_id[b] # None
       IN /\ agent_id' = [agent_id EXCEPT ![c] = "B"]
          /\ subscribers' = Subscribed(subscribers, "B", c)
          /\ prior_agents' = c - 1
    /\ step_count' = 0
    /\ model_running' = TRUE
    /\ todo' = {}
    /\ main_pc' = "idle"
    /\ UNCHANGED <<message_history, lock, running, message_queue, processor_thread,
                   nthreads, pc, cur, pending, calls, received_messages,
                   message_buffer, sent, queued_at_stop, get_call, returned,
                   step_calls, run, availableQuantity, purchased_books, sales_count,
                   stepping, tick_log, viewVars>>

\* A model with a customer A and a book B on the process-wide bus, the bus
\* running.
InitSecond ==
    /\ InitTick

\* The model is stepped and cleaned up, and a second model is then made on
\* the same bus and stepped.
NextSecond ==
    \/ step_count < MaxModelTicks /\ StepBegin
    \/ \E c \in Comms : AgentStep(c)
    \/ AttemptPurchase
    \/ AgentActionEnd
    \/ StepEnd
    \/ prior_agents = 0 /\ ModelCleanup
    \/ StopJoined
    \/ StopTimedOut
    \/ /\ prior_agents = 0 /\ ~running
       /\ \A c \in Agents : ~HasKey(subscribers, agent_id[c])
       /\ ModelInit
    \/ CreateAgents
    \/ \E t \in Threads : Dispatcher(t)

SpecSecond == InitSecond /\ [][NextSecond]_vars

\* =============================================================== claims
\* the callbacks of the fan-out in progress: called so far, then still to call
FanOut == calls \o pending

CalledCbs == [i \in 1..Len(calls) |-> calls[i].cb]

\* C1: while a directed message to a registered id R is fanned out, the
\* callbacks called and still to be called are exactly the handlers registered
\* for R, in registration order, each called under R and under no other id,
\* and every communicator handler called so far has put the message in its
\* mailbox exactly once per call.
DirectedDelivery ==
    \A t \in Threads :
        (pc[t] = "fanout" /\ cur[t].recipient_id # None
            /\ HasKey(subscribers, cur[t].recipient_id)) =>
            /\ [i \in 1..Len(FanOut) |-> FanOut[i].cb]
                  = CallbacksOf(subscribers, cur[t].recipient_id)
            /\ \A i \in 1..Len(FanOut) : FanOut[i].id = cur[t].recipient_id
            /\ \A c \in Comms :
                  Count(cur[t], received_messages[c]) = Count(c, CalledCbs)

\* C1 witness: a directed fan-out has ended after at least two calls, one of
\* them to a communicator, while another id is registered too.
DirectedDeliveryWitness ==
    \E t \in Threads :
        /\ pc[t] = "fanout" /\ pending = <<>>
        /\ cur[t].recipient_id # None
        /\ Len(calls) >= 2
        /\ \E c \in Comms : c \in Range(CalledCbs) /\ cur[t] \in Range(received_messages[c])
        /\ \E i \in 1..Len(subscribers) :
              subscribers[i].id # cur[t].recipient_id /\ subscribers[i].cbs # <<>>

\* C2: while a broadcast from S is fanned out, every registration of every id
\* other than S is called exactly once and no registration of S is called;
\* when the fan-out has ended, every communicator registered under another id
\* holds the message exactly once and no communicator of id S holds it.
BroadcastDelivery ==
    \A t \in Threads :
        (pc[t] = "fanout" /\ cur[t].recipient_id = None) =>
            /\ \A id \in Ids, h \in Handlers :
                  Count([id |-> id, cb |-> h], FanOut) =
                      IF id = cur[t].sender_id THEN 0
                      ELSE Count(h, CallbacksOf(subscribers, id))
            /\ pending = <<>> =>
                  \A c \in Comms :
                      Count(cur[t], received_messages[c]) =
                          IF /\ agent_id[c] \notin {None, cur[t].sender_id}
                             /\ c \in Range(CallbacksOf(subscribers, agent_id[c]))
                          THEN 1 ELSE 0

\* C2 witness: a broadcast whose sender id has two handlers has been fanned
\* out; two other communicators hold it once each, the sender's holds none.
BroadcastDeliveryWitness ==
    \E t \in Threads :
        /\ pc[t] = "fanout" /\ pending = <<>>
        /\ cur[t].recipient_id = None
        /\ Len(CallbacksOf(subscribers, cur[t].sender_id)) >= 2
        /\ \E c, d \in Comms :
              /\ c # d
              /\ Count(cur[t], received_messages[c]) = 1
              /\ Count(cur[t], received_messages[d]) = 1
        /\ \E c \in Comms :
              agent_id[c] = cur[t].sender_id /\ received_messages[c] = <<>>

\* C5: once a handler has raised during a fan-out, the dispatcher still holds
\* the lock and the callbacks called and still to be called remain all those
\* due for the message; when the fan-out has ended every communicator
\* handler due has received the message exactly once.
FaultIsolation ==
    \A t \in Threads :
        (pc[t] = "fanout" /\ Faulty \in Range(CalledCbs)) =>
            /\ lock = t
            /\ FanOut = DeliveryCalls(subscribers, cur[t])
            /\ pending = <<>> =>
                  \A i \in 1..Len(FanOut) :
                      FanOut[i].cb \in Comms =>
                          Count(cur[t], received_messages[FanOut[i].cb]) = 1

\* C5 witness: a fan-out has ended in which a communicator handler was called
\* after the raising handler, and its mailbox holds the message.
FaultIsolationWitness ==
    \E t \in Threads :
        /\ pc[t] = "fanout" /\ pending = <<>>
        /\ \E i, j \in 1..Len(calls) :
              /\ i < j
              /\ calls[i].cb = Faulty
              /\ calls[j].cb \in Comms
              /\ cur[t] \in Range(received_messages[calls[j].cb])

\* messages the dispatcher has recorded so far: sent, no longer queued, and
\* not held by a loop that has still to enter _deliver_message
Dispatched == Len(sent) - Len(message_queue) - Cardinality({t \in Threads : pc[t] = "deliver"})

\* the k-th message sent, as the send_message call described it
SentMessage(k) ==
    [message_type |-> sent[k].kind, sender_id |-> agent_id[sent[k].by],
     recipient_id |-> sent[k].to, content |-> ContentOf(sent[k].kind),
     timestamp |-> k]

\* C3: the history never holds more than 1000 messages, and with N messages
\* dispatched (by one loop, so in the order sent) it holds exactly the last
\* min(N, 1000) of them, oldest first.
HistoryBounded ==
    /\ Len(message_history) <= HistoryCap
    /\ LET n == Dispatched
           k == IF n > HistoryCap THEN HistoryCap ELSE n
       IN message_history = [i \in 1..k |-> SentMessage(n - k + i)]

\* C3 witness: more than 1000 messages have been dispatched, the history is
\* full and its oldest entry is the 1000th most recent message.
HistoryBoundedWitness ==
    /\ Dispatched > HistoryCap
    /\ Len(message_history) = HistoryCap
    /\ message_history[1].timestamp = Dispatched - HistoryCap + 1

\* everything a communicator has received: drained already, then waiting
Arrivals(c) == message_buffer[c] \o received_messages[c]

StampCount(k, s) == Cardinality({i \in 1..Len(s) : s[i].timestamp = k})

Recorded(k) == StampCount(k, message_history) > 0

\* C4: a message directed to the id of a subscribed communicator is, while
\* the bus keeps running, eventually among that communicator's arrivals; it is
\* never there twice, it is there as it was sent (sender_id the sending
\* communicator's id, the kind that was sent), and a drain moves the whole
\* mailbox to the agent.
DirectedEventuallyDrained ==
    /\ [](\A k \in 1..Len(sent), d \in Comms :
            (sent[k].to # None /\ agent_id[d] = sent[k].to) =>
                /\ StampCount(k, Arrivals(d)) <= 1
                /\ \A i \in 1..Len(Arrivals(d)) :
                      Arrivals(d)[i].timestamp = k => Arrivals(d)[i] = SentMessage(k))
    /\ [][\A c \in Comms :
            message_buffer'[c] # message_buffer[c] =>
                /\ message_buffer'[c] = message_buffer[c] \o received_messages[c]
                /\ received_messages'[c] = <<>>]_vars
    /\ \A k \in 1..MaxLifeSends, d \in Comms :
            (Len(sent) >= k /\ sent[k].to # None /\ agent_id[d] = sent[k].to)
                ~> (~running \/ StampCount(k, Arrivals(d)) = 1)

\* C4 witness: with the bus running, B has drained exactly one message, the
\* one A directed to it.
DirectedEventuallyDrainedWitness ==
    /\ running
    /\ Len(message_buffer[2]) = 1
    /\ received_messages[2] = <<>>
    /\ \E k \in 1..Len(sent) :
          /\ sent[k].by = 1 /\ sent[k].to = "B"
          /\ message_buffer[2][1] = SentMessage(k)
          /\ message_buffer[2][1].sender_id = "A"

\* a handler has raised: a recorded message had the raising handler among its
\* callbacks and its fan-out is past that call
Faulted ==
    \E j \in 1..Len(message_history) :
        /\ \E i \in 1..Len(DeliveryCalls(subscribers, message_history[j])) :
              DeliveryCalls(subscribers, message_history[j])[i].cb = Faulty
        /\ \A t \in Threads :
              (pc[t] = "fanout" /\ cur[t] = message_history[j]) => Faulty \in Range(CalledCbs)

\* C6: the running flag is cleared only by stop(); a dispatcher loop ends
\* only at its while test and only when it finds the flag cleared, never
\* from inside a delivery; and once a handler has raised, every message
\* still queued is recorded later unless the bus is stopped.
LoopSurvivesFaults ==
    /\ [][/\ (running /\ ~running') => (main_pc = "idle" /\ main_pc' = "join")
          /\ \A t \in Threads :
                (pc[t] # "done" /\ pc'[t] = "done") => (pc[t] = "loop" /\ ~running)]_vars
    /\ \A k \in 1..MaxLifeSends :
            (Faulted /\ k \in QueuedStamps) ~> (~running \/ Recorded(k))

\* C6 witness: after a fan-out in which a handler raised, the same loop has
\* recorded a later message.
LoopSurvivesFaultsWitness ==
    /\ running /\ nthreads = 1
    /\ Len(message_history) = 2
    /\ Faulty \in {DeliveryCalls(subscribers, message_history[1])[i].cb :
                      i \in 1..Len(DeliveryCalls(subscribers, message_history[1]))}
    /\ pc[1] = "loop"

\* C7: start() on a running bus is a no-op: while the bus is running no step
\* launches a dispatcher loop or replaces processor_thread.
StartIdempotent ==
    [][running => (nthreads' = nthreads /\ processor_thread' = processor_thread)]_vars

\* a message is with the dispatcher: queued, or taken by a loop
Held(k) == k \in QueuedStamps \/ \E t \in Threads : cur[t].timestamp = k

Delivered(k) == \E c \in Comms : StampCount(k, Arrivals(c)) > 0

\* the steps of a stop() call
StopStep ==
    \/ (main_pc = "idle" /\ ~running' /\ (running \/ main_pc' = "join"))
    \/ (main_pc = "join" /\ main_pc' = "idle")

\* with no dispatcher loop alive nothing is recorded, nothing is put in a
\* mailbox and nothing leaves the outbound queue
QuietWhileStopped ==
    LiveThreads = {} =>
        /\ message_history' = message_history
        /\ \A c \in Comms :
              Len(received_messages'[c]) <= Len(received_messages[c])
        /\ Len(message_queue') >= Len(message_queue)
        /\ SubSeq(message_queue', 1, Len(message_queue)) = message_queue

\* C8 as claimed: no message that was queued when a stop() had taken effect
\* (returned, no loop alive) is ever recorded or delivered afterwards.
QueuedAtStopDropped ==
    \A k \in queued_at_stop : ~Recorded(k) /\ ~Delivered(k)

\* C8 amended: stop() leaves the outbound queue as it is; a message queued
\* when a stop() has taken effect is not lost (it stays queued, is taken by a
\* loop, or is recorded), and while no loop is alive it is neither recorded
\* nor delivered.
QueuedAtStopRetained ==
    /\ [](\A k \in queued_at_stop : Held(k) \/ Recorded(k))
    /\ [][StopStep => message_queue' = message_queue]_vars
    /\ [][QuietWhileStopped]_vars

\* C8 witness: a message that was queued when a stop() had taken effect has
\* been recorded and delivered after a later start().
QueuedAtStopRetainedWitness ==
    \E k \in queued_at_stop : Recorded(k) /\ Delivered(k)

\* C9: a stop() called during a delivery does not cut it short (the loop
\* keeps the lock and all the callbacks due are called), the stop() call
\* returns, every fan-out in progress ends, and every loop that is alive
\* while the flag is cleared ends unless the bus is started again.
StopNeverDeadlocks ==
    /\ [](\A t \in Threads :
            (pc[t] = "fanout" /\ ~running) =>
                (lock = t /\ FanOut = DeliveryCalls(subscribers, cur[t])))
    /\ (main_pc = "join") ~> (main_pc = "idle")
    /\ \A t \in Threads :
            /\ (pc[t] = "fanout" /\ ~running) ~> (pc[t] = "fanout" /\ pending = <<>>)
            /\ (Alive(t) /\ ~running) ~> (pc[t] = "done" \/ running)

\* C9 witness: stop() is waiting in join while a fan-out has callbacks left.
StopNeverDeadlocksWitness ==
    /\ main_pc = "join"
    /\ ~running
    /\ \E t \in Threads : pc[t] = "fanout" /\ pending # <<>> /\ calls # <<>>

\* the position of the message stamped k in the history
HistoryIndex(k) == CHOOSE i \in 1..Len(message_history) : message_history[i].timestamp = k

\* C10: send_message is accepted while the bus is not running; with the bus
\* stopped (flag cleared, no loop alive) nothing is recorded or delivered and
\* the queue only grows; and the messages sent while the bus was not running
\* are recorded in the order in which they were sent.
StoppedSendsKeptInOrder ==
    /\ []((~running /\ main_pc = "idle") => ENABLED Send(1, "system_alert", "B"))
    /\ [][QuietWhileStopped]_vars
    /\ [](\A i, j \in 1..Len(sent) :
            (i < j /\ ~sent[i].up /\ ~sent[j].up /\ Recorded(i) /\ Recorded(j))
                => HistoryIndex(i) < HistoryIndex(j))

\* a message directed to an id that is not in the registry
Unknown(m) == m.recipient_id # None /\ ~HasKey(subscribers, m.recipient_id)

\* C11: dispatching a message directed to an unregistered id appends it to
\* the history, calls no handler and changes no mailbox; the loop leaves the
\* delivery back at its while test with the lock released, and a message
\* queued behind it is recorded later unless the bus is stopped.
UnknownRecipientNoOp ==
    /\ [][\A t \in Threads :
            (pc[t] = "deliver" /\ pc'[t] = "fanout" /\ Unknown(cur[t])) =>
                /\ message_history' = Append(message_history, cur[t])
                /\ pending' = <<>>
                /\ received_messages' = received_messages]_vars
    /\ [](\A t \in Threads :
            (pc[t] = "fanout" /\ Unknown(cur[t])) =>
                (FanOut = <<>> /\ ~Delivered(cur[t].timestamp)))
    /\ [](\A j \in 1..Len(message_history) :
            Unknown(message_history[j]) => ~Delivered(message_history[j].timestamp))
    /\ [][\A t \in Threads :
            (pc[t] = "fanout" /\ Unknown(cur[t]) /\ pc'[t] # "fanout") =>
                (pc'[t] = "loop" /\ lock' = 0)]_vars
    /\ \A k \in 1..MaxLifeSends :
            ((\E j \in 1..Len(message_history) : Unknown(message_history[j]))
                /\ k \in QueuedStamps) ~> (~running \/ Recorded(k))

\* C11 witness: a message to an unregistered id has been recorded and
\* delivered to nobody, and the same loop has then dispatched a message that
\* reached a mailbox.
UnknownRecipientNoOpWitness ==
    /\ Len(message_history) = 2
    /\ Unknown(message_history[1])
    /\ ~Delivered(message_history[1].timestamp)
    /\ Delivered(message_history[2].timestamp)
    /\ pc[1] = "loop"

\* the handler of communicator c is in the registry
Registered(c) == \E i \in 1..Len(subscribers) : c \in Range(subscribers[i].cbs)

\* C12: the step that takes a communicator's handler out of the registry
\* (its cleanup, or that of a communicator with the same id) leaves its id
\* out of get_stats().active_agents with no handler; from then on every
\* dispatch, directed to that id or broadcast, appends the message to the
\* history, calls no handler of that communicator and adds nothing to its
\* mailbox.
CleanupUnregisters ==
    /\ [][\A c \in Comms :
            (Registered(c) /\ ~Registered(c)') =>
                /\ agent_id[c] \notin Range(GetStats(message_history', subscribers').active_agents)
                /\ CallbacksOf(subscribers', agent_id[c]) = <<>>]_vars
    /\ [][\A c \in Comms :
            (agent_id[c] # None /\ ~Registered(c)) =>
                /\ received_messages'[c] = received_messages[c]
                /\ \A t \in Threads :
                      (pc[t] = "deliver" /\ pc'[t] = "fanout") =>
                          /\ message_history' = Append(message_history, cur[t])
                          /\ \A i \in 1..Len(pending') : pending'[i].cb # c]_vars
    /\ [](\A c \in Comms, t \in Threads :
            (agent_id[c] # None /\ ~Registered(c) /\ pc[t] = "fanout") =>
                \A i \in 1..Len(FanOut) : FanOut[i].cb # c)

\* C12 witness: a communicator has been cleaned up, a message directed to its
\* id has been dispatched since (it is in the history, the delivery is over)
\* and its mailbox is empty, while another communicator is still registered.
CleanupUnregistersWitness ==
    \E c, d \in Comms :
        /\ agent_id[c] # None /\ ~Registered(c) /\ Registered(d)
        /\ Len(message_history) = 1
        /\ message_history[1].recipient_id = agent_id[c]
        /\ received_messages[c] = <<>>
        /\ \A t \in Threads : pc[t] # "fanout"

\* what a communicator's direct get_messages calls have returned, followed by
\* what is in its mailbox
Taken(c) == returned[c] \o received_messages[c]

\* C13: a get_messages call never blocks on a non-empty mailbox; a call that
\* returns messages returns the whole mailbox, in queue order, and leaves the
\* mailbox empty; the messages returned to a communicator and those in its
\* mailbox are in the order of their dispatch, and none is there twice.
DrainReturnsAll ==
    /\ [][(main_pc = "idle" /\ main_pc' = "get_messages") =>
              received_messages[get_call'.c] = <<>>]_vars
    /\ [][\A c \in Comms :
            returned'[c] # returned[c] =>
                /\ received_messages[c] # <<>>
                /\ get_call'.c = c /\ get_call'.state = "returned"
                /\ get_call'.messages = received_messages[c]
                /\ returned'[c] = returned[c] \o received_messages[c]
                /\ received_messages'[c] = <<>>]_vars
    /\ [](\A c \in Comms :
            /\ \A k \in 1..Len(sent) : StampCount(k, Taken(c)) <= 1
            /\ \A i, j \in 1..Len(Taken(c)) :
                  i < j => HistoryIndex(Taken(c)[i].timestamp)
                               < HistoryIndex(Taken(c)[j].timestamp))

\* C13 witness: one get_messages call on B has returned two messages.
DrainReturnsAllWitness ==
    /\ get_call.c = 2
    /\ get_call.state = "returned"
    /\ Len(get_call.messages) = 2
    /\ received_messages[2] = <<>>

\* nothing is on its way to a mailbox: the outbound queue is empty and no
\* dispatcher loop holds a message
NothingInFlight == message_queue = <<>> /\ \A t \in Threads : cur[t] = NoMsg

\* C14: a get_messages call (timeout omitted, zero or positive) on an empty
\* mailbox with nothing on its way returns: it is never left blocked without
\* a deadline, and its batch is empty and the mailbox still empty.
DrainOnEmptyReturns ==
    /\ (main_pc = "get_messages" /\ received_messages[get_call.c] = <<>>
           /\ NothingInFlight) => ENABLED GetExpired
    /\ (get_call.state = "returned" /\ get_call.found = 0 /\ NothingInFlight) =>
           (get_call.messages = <<>> /\ received_messages[get_call.c] = <<>>)

\* C15: a message sent by an agent's action during a tick is not drained by
\* any agent during that tick: every message an agent's process_messages
\* takes from its mailbox was sent in an earlier tick.
VisibleNextTick ==
    [][\A c \in Comms :
        message_buffer'[c] # message_buffer[c] =>
            \A i \in 1..Len(received_messages[c]) :
                sent[received_messages[c][i].timestamp].tick < step_count]_vars

StepOrder == <<"process_messages", "agent_action">>

\* C16: a tick is executed only while the model is running; within it every
\* agent's step is one process_messages, which hands the whole mailbox to
\* handle_message, followed by one agent_action, and when the tick ends every
\* agent has done exactly that.
EachAgentSteppedOnce ==
    /\ [][step_count' # step_count => (model_running /\ step_count' = step_count + 1)]_vars
    /\ [](\A c \in Comms :
            Len(tick_log[c]) <= 2 /\ tick_log[c] = SubSeq(StepOrder, 1, Len(tick_log[c])))
    /\ [][\A c \in Comms :
            (tick_log[c] = <<>> /\ tick_log'[c] # <<>>) =>
                /\ message_buffer'[c] = message_buffer[c] \o received_messages[c]
                /\ received_messages'[c] = <<>>]_vars
    /\ [][(main_pc = "tick" /\ main_pc' = "idle") =>
              \A c \in Agents : tick_log[c] = StepOrder]_vars

\* C16 witness: the second tick is over, both agents have been stepped, and
\* B has handled a message in its step.
EachAgentSteppedOnceWitness ==
    /\ main_pc = "idle"
    /\ step_count = 2
    /\ \A c \in Agents : tick_log[c] = StepOrder
    /\ message_buffer[2] # <<>>

\* the positions of the history entries that match all supplied filters
Matches(hist, agent, kind, since) ==
    {i \in 1..Len(hist) :
        /\ agent = None \/ hist[i].sender_id = agent \/ hist[i].recipient_id = agent
        /\ kind = None \/ hist[i].message_type = kind
        /\ since = 0 \/ hist[i].timestamp >= since}

\* the n latest positions of M (all of M when n is 0: no limit supplied)
MostRecent(M, n) ==
    IF n = 0 THEN M ELSE {i \in M : Cardinality({j \in M : j > i}) < n}

RECURSIVE Descending(_)
Descending(S) ==
    IF S = {} THEN <<>>
    ELSE LET m == CHOOSE x \in S : \A y \in S : y <= x
         IN <<m>> \o Descending(S \ {m})

RECURSIVE Ascending(_)
Ascending(S) ==
    IF S = {} THEN <<>>
    ELSE LET m == CHOOSE x \in S : \A y \in S : x <= y
         IN <<m>> \o Ascending(S \ {m})

Entries(hist, order) == [j \in 1..Len(order) |-> hist[order[j]]]

\* C17 as claimed: a get_message_history call with a positive limit returns
\* the matching entries, truncated to the `limit` most recent, most recent
\* first.
HistoryMostRecentFirst ==
    [][(history_view' # history_view /\ history_view'.limit > 0) =>
          history_view'.messages =
              Entries(message_history,
                      Descending(MostRecent(Matches(message_history, history_view'.agent_id,
                                                    history_view'.message_type,
                                                    history_view'.since),
                                            history_view'.limit)))]_vars

\* C17 amended: a get_message_history call with limit >= 0 returns the
\* entries that match all supplied filters, truncated to the `limit` most
\* recent when limit is positive (limit 0 or None: all of them), in history
\* order, oldest first.
HistoryOldestFirst ==
    [][(history_view' # history_view /\ history_view'.limit >= 0) =>
          history_view'.messages =
              Entries(message_history,
                      Ascending(MostRecent(Matches(message_history, history_view'.agent_id,
                                                   history_view'.message_type,
                                                   history_view'.since),
                                           history_view'.limit)))]_vars

\* C17 witness: two messages that both involve B are recorded, and a call
\* with agent B and limit 1 has returned the later one.
HistoryOldestFirstWitness ==
    /\ history_view.called
    /\ Len(message_history) = 2
    /\ history_view.agent_id = "B"
    /\ history_view.limit = 1
    /\ history_view.messages = <<message_history[2]>>
    /\ message_history[1].sender_id = "A" /\ message_history[2].sender_id = "B"

\* what the caller sees in the list get_message_history returned
HistorySeen ==
    IF history_view.copied THEN history_view.messages ELSE message_history

RECURSIVE SumOf(_)
SumOf(f) ==
    IF DOMAIN f = {} THEN 0
    ELSE LET k == CHOOSE x \in DOMAIN f : TRUE
         IN f[k] + SumOf([x \in DOMAIN f \ {k} |-> f[x]])

\* C19: the total_messages of a get_stats call is the number of messages
\* the dispatcher has delivered since the bus was created, and the counts in
\* message_types add up to it.
StatsTotalIsDelivered ==
    [][stats_view' # stats_view =>
          /\ stats_view'.stats.total_messages = Dispatched
          /\ SumOf(stats_view'.stats.message_types) = stats_view'.stats.total_messages]_vars

\* s without its i-th element
Without(s, i) == SubSeq(s, 1, i - 1) \o SubSeq(s, i + 1, Len(s))

\* C20: for the registry of every reachable state and every id and handler:
\* unsubscribe(id, handler) with a handler registered for id removes one
\* registration of that handler and leaves the other handlers of id and all
\* other entries as they were, in the same order; unsubscribe(id) removes the
\* entry of id and nothing else; for an unknown id or a handler not
\* registered for id the registry stays as it is.
UnsubscribeExact ==
    \A id \in Ids, cb \in Handlers \cup {NoCallback} :
        LET after == Unsubscribed(subscribers, id, cb)
            others == SelectSeq(subscribers, LAMBDA e : e.id # id)
        IN /\ SelectSeq(after, LAMBDA e : e.id # id) = others
           /\ IF ~HasKey(subscribers, id) THEN after = subscribers
              ELSE IF cb = NoCallback THEN after = others
              ELSE IF cb \notin Range(CallbacksOf(subscribers, id)) THEN after = subscribers
              ELSE /\ Keys(after) = Keys(subscribers)
                   /\ \E i \in 1..Len(CallbacksOf(subscribers, id)) :
                         /\ CallbacksOf(subscribers, id)[i] = cb
                         /\ CallbacksOf(after, id) = Without(CallbacksOf(subscribers, id), i)

\* C20 witness: A's entry lists the raising handler but not the handler of
\* the communicator that is bound to A (only unsubscribe("A", that handler)
\* leaves this), and B's entry lists the raising handler as well.
UnsubscribeExactWitness ==
    /\ agent_id[1] = "A"
    /\ CallbacksOf(subscribers, "A") = <<Faulty>>
    /\ Faulty \in Range(CallbacksOf(subscribers, "B"))
    /\ Len(CallbacksOf(subscribers, "B")) = 2

\* C21: send_message is enabled whenever the caller is free to make the call,
\* whatever the state of the bus (lock held by a delivery, bus stopped); the
\* step of a send appends the message, as constructed, at the tail of the
\* outbound queue and leaves the registry, the history, every mailbox, the
\* lock, the running flag and every dispatcher loop as they were.
SendNeverBlocks ==
    /\ [](\A c \in Comms, k \in Kinds, r \in {"B", None} :
            (main_pc = "idle" /\ agent_id[c] # None) => ENABLED Send(c, k, r))
    /\ [][Len(sent') # Len(sent) =>
            LET n == Len(sent) + 1
            IN /\ Len(sent') = n
               /\ message_queue' =
                      Append(message_queue,
                             [message_type |-> sent'[n].kind,
                              sender_id |-> agent_id[sent'[n].by],
                              recipient_id |-> sent'[n].to,
                              content |-> ContentOf(sent'[n].kind),
                              timestamp |-> n])
               /\ UNCHANGED <<subscribers, message_history, received_messages,
                              message_buffer, lock, running, pc, cur, pending,
                              calls, main_pc>>]_vars

\* C21 witness: a message sent while a delivery held the lock and the bus
\* was already stopped is queued, the delivery still in progress.
SendNeverBlocksWitness ==
    \E i \in 1..Len(sent) :
        /\ sent[i].held /\ ~sent[i].up
        /\ i \in QueuedStamps
        /\ lock # 0

\* C22: the registry never changes while a delivery holds the lock; the step
\* that enters a delivery appends the message to the history and fixes the
\* callbacks of the fan-out from the registry of that instant; throughout the
\* fan-out the callbacks called and still to be called are exactly those
\* registered for the message at the current registry, and the lock is
\* released only when none is left.
RegistrySnapshot ==
    /\ [][lock # 0 => subscribers' = subscribers]_vars
    /\ [][\A t \in Threads :
            (pc[t] = "deliver" /\ pc'[t] = "fanout") =>
                /\ lock = 0 /\ lock' = t
                /\ message_history' = KeepLast(Append(message_history, cur[t]))
                /\ calls' \o pending' = DeliveryCalls(subscribers, cur[t])
                /\ subscribers' = subscribers]_vars
    /\ [](\A t \in Threads :
            pc[t] = "fanout" =>
                (lock = t /\ FanOut = DeliveryCalls(subscribers, cur[t])))
    /\ [][(lock # 0 /\ lock' = 0) => pending = <<>>]_vars

\* C22 witness: in the middle of a fan-out (one callback called, one still to
\* call) whose callbacks include a handler subscribed after the message was
\* sent, an unsubscribe of the recipient id by the user thread has to wait.
RegistrySnapshotWitness ==
    \E t \in Threads :
        /\ pc[t] = "fanout" /\ calls # <<>> /\ pending # <<>>
        /\ main_pc = "idle"
        /\ \E i \in 1..Len(FanOut) : FanOut[i].cb = 3
        /\ HasKey(subscribers, "B")
        /\ ~ENABLED Unsubscribe("B", NoCallback)

\* C23: every message in a communicator's mailbox is directed to the
\* communicator's id, or is a broadcast sent under another id; and a mailbox
\* grows only by a step of a dispatcher loop that holds the lock inside a
\* fan-out, by the message that loop is delivering.
MailboxDestined ==
    /\ [](\A c \in Comms :
            \A i \in 1..Len(received_messages[c]) :
                LET m == received_messages[c][i]
                IN \/ m.recipient_id = agent_id[c]
                   \/ (m.recipient_id = None /\ m.sender_id # agent_id[c]))
    /\ [][\A c \in Comms :
            Len(received_messages'[c]) > Len(received_messages[c]) =>
                \E t \in Threads :
                    /\ pc[t] = "fanout" /\ lock = t
                    /\ received_messages'[c] = Append(received_messages[c], cur[t])]_vars

\* C23 witness: B's mailbox holds a message directed to B and a broadcast from
\* A, a second communicator of another id holds the broadcast only, and the
\* sender's mailbox is empty.
MailboxDestinedWitness ==
    /\ Len(received_messages[2]) = 2
    /\ \E i, j \in 1..2 :
          /\ received_messages[2][i].recipient_id = "B"
          /\ received_messages[2][j].recipient_id = None
    /\ agent_id[3] = "C"
    /\ Len(received_messages[3]) = 1
    /\ received_messages[1] = <<>>

MessageIntegrity ==
    /\ \A i \in 1..Len(message_queue) :
          message_queue[i] = SentMessage(message_queue[i].timestamp)
    /\ \A t \in Threads :
          cur[t] # NoMsg => cur[t] = SentMessage(cur[t].timestamp)
    /\ \A i \in 1..Len(message_history) :
          message_history[i] = SentMessage(message_history[i].timestamp)
    /\ \A c \in Comms :
          \A i \in 1..Len(Arrivals(c)) :
              /\ Arrivals(c)[i] = SentMessage(Arrivals(c)[i].timestamp)
              /\ Arrivals(c)[i].sender_id = agent_id[sent[Arrivals(c)[i].timestamp].by]
              /\ Arrivals(c)[i] \in Range(message_history)

\* C25 witness: B's agent has drained a directed message from A with its
\* content, B's mailbox holds a later broadcast from A, and both are in the
\* history as sent.
MessageIntegrityWitness ==
    /\ Len(message_buffer[2]) = 1 /\ Len(received_messages[2]) = 1
    /\ message_buffer[2][1] = SentMessage(1)
    /\ received_messages[2][1] = SentMessage(2)
    /\ sent[1].by = 1 /\ sent[1].to = "B" /\ sent[1].kind = "purchase_request"
    /\ message_buffer[2][1].content = ContentOf("purchase_request")
    /\ sent[2].by = 1 /\ sent[2].to = None
    /\ message_history = <<SentMessage(1), SentMessage(2)>>

\* C26: the history holds only messages that were enqueued, each at most
\* once, so it is never longer than the number of send_message calls; while
\* no send has been made, however many ticks have run, the history is empty
\* and get_stats().total_messages is 0.
HistoryOnlyEnqueued ==
    /\ Len(message_history) <= Len(sent)
    /\ \A i \in 1..Len(message_history) :
          /\ message_history[i].timestamp \in 1..Len(sent)
          /\ message_history[i] = SentMessage(message_history[i].timestamp)
          /\ StampCount(message_history[i].timestamp, message_history) = 1
    /\ sent = <<>> =>
          /\ message_history = <<>>
          /\ GetStats(message_history, subscribers).total_messages = 0

\* C26 witness: every tick of the loop has run, both agents were stepped in
\* the last one, no agent has sent anything, and the history is empty.
HistoryOnlyEnqueuedWitness ==
    /\ step_count = MaxTicks /\ main_pc = "idle"
    /\ \A c \in Agents : tick_log[c] = <<"process_messages", "agent_action">>
    /\ Cardinality(Agents) = 2
    /\ sent = <<>>
    /\ message_history = <<>>
    /\ \A t \in Threads : pc[t] \in {"none", "loop", "get"}

\* C27: a step() call on a running model adds exactly one to step_count and
\* schedules every agent; a step() call on a model that is not running
\* changes neither step_count nor any agent's mailbox, buffer or log and
\* steps no agent; step_count changes in no other way, and no agent is
\* stepped while the model is not running.
StepCountsTicks ==
    [][/\ step_calls' # step_calls =>
            /\ main_pc = "idle"
            /\ step_calls' = step_calls + 1
            /\ IF model_running
               THEN step_count' = step_count + 1 /\ todo' = Agents
               ELSE UNCHANGED <<step_count, todo, stepping, tick_log, main_pc,
                                message_buffer, received_messages, message_queue,
                                sent, model_running>>
       /\ step_count' # step_count => step_calls' # step_calls
       /\ (~model_running /\ main_pc = "idle") =>
             UNCHANGED <<step_count, todo, stepping, tick_log, message_buffer>>]_vars

\* C27 witness: the model has ended at StepLimit steps, reached one step per
\* call, and step() has been called on it since: the calls outnumber the
\* steps and no agent has been stepped.
StepCountsTicksWitness ==
    /\ ~model_running /\ main_pc = "idle"
    /\ step_count = StepLimit
    /\ step_calls = StepLimit + MaxIdleSteps
    /\ todo = {} /\ stepping = 0

\* a dispatcher loop is inside an iteration: past its while test, taking a
\* message from the outbound queue or delivering one
Dispatching(t) == pc[t] \in {"get", "deliver", "fanout"}

\* C28: over any sequence of start() and stop() calls at most one dispatcher
\* loop is inside an iteration at the same time.
OneDispatcherLoop ==
    Cardinality({t \in Threads : Dispatching(t)}) <= 1

\* the timestamps of a sequence of messages increase: the messages are in
\* the order of their send_message calls
InSendOrder(s) ==
    \A i, j \in 1..Len(s) : i < j => s[i].timestamp < s[j].timestamp

\* C29: after any sequence of start, stop, send, dispatch and drain steps the
\* history is in the order of the send_message calls, and so is, for every
\* communicator, what its agent has drained followed by what is in its
\* mailbox.
FifoOrder ==
    /\ InSendOrder(message_history)
    /\ \A c \in Comms : InSendOrder(Arrivals(c))

\* the message stamped k is in the history, or the history is full and its
\* oldest entry is younger
RecordedOrEvicted(k) ==
    \/ Recorded(k)
    \/ (Len(message_history) = HistoryCap /\ message_history[1].timestamp > k)

\* C30: every message that is in a mailbox or an agent's buffer, and the
\* message of every fan-out in progress, has been appended to the history
\* (and is there unless evicted by the cap); the append is made by the step
\* that takes the lock for the delivery, before any handler is called, and a
\* step that puts a message in a mailbox is made under that lock with the
\* message already in the history; so in every state with the lock free
\* every message delivered is recorded.
RecordedBeforeFanOut ==
    /\ [](\A c \in Comms :
            \A i \in 1..Len(Arrivals(c)) : RecordedOrEvicted(Arrivals(c)[i].timestamp))
    /\ [](\A t \in Threads :
            pc[t] = "fanout" => (lock = t /\ RecordedOrEvicted(cur[t].timestamp)))
    /\ [][message_history' # message_history =>
            \E t \in Threads :
                /\ pc[t] = "deliver" /\ pc'[t] = "fanout"
                /\ lock = 0 /\ lock' = t
                /\ calls' = <<>>
                /\ received_messages' = received_messages]_vars
    /\ [][\A c \in Comms :
            Len(received_messages'[c]) > Len(received_messages[c]) =>
                /\ lock # 0 /\ lock' = lock
                /\ message_history' = message_history
                /\ RecordedOrEvicted(received_messages'[c][Len(received_messages'[c])].timestamp)]_vars

\* C30 witness: inside a fan-out, under the lock, a handler has put the
\* message in a mailbox, and the message is the newest entry of the history.
RecordedBeforeFanOutWitness ==
    \E t \in Threads, c \in Comms :
        /\ pc[t] = "fanout" /\ lock = t /\ calls # <<>>
        /\ cur[t] \in Range(received_messages[c])
        /\ message_history # <<>>
        /\ message_history[Len(message_history)] = cur[t]

\* where the message stamped k is on its way to the history: queued, held by
\* a loop that has still to enter _deliver_message, or recorded
Places(k) ==
    StampCount(k, message_queue)
        + Cardinality({t \in Threads : pc[t] = "deliver" /\ cur[t].timestamp = k})
        + StampCount(k, message_history)

\* C31: with any number of loops and any start/stop calls, every message sent
\* is in at most one place (queued, taken by one loop, or recorded once); a
\* message that has left the queue never returns to it; every fan-out calls
\* each registration due at most once, and no mailbox with its agent's buffer
\* holds a message twice.
AtMostOnceDispatch ==
    /\ [](\A k \in 1..Len(sent) :
            /\ Places(k) <= 1
            /\ Cardinality({t \in Threads : cur[t].timestamp = k}) <= 1
            /\ \A c \in Comms : StampCount(k, Arrivals(c)) <= 1)
    /\ [](\A t \in Threads :
            pc[t] = "fanout" =>
                /\ FanOut = DeliveryCalls(subscribers, cur[t])
                /\ \A i, j \in 1..Len(FanOut) : FanOut[i] = FanOut[j] => i = j)
    /\ [][\A k \in 1..Len(sent) :
            k \notin QueuedStamps => StampCount(k, message_queue') = 0]_vars

\* C31 witness: two loops are alive at once, and both messages sent have been
\* recorded once and are once among B's arrivals.
AtMostOnceDispatchWitness ==
    /\ Cardinality(LiveThreads) = 2
    /\ Len(sent) = 2
    /\ Len(message_history) = 2
    /\ \A k \in 1..2 : StampCount(k, message_history) = 1 /\ StampCount(k, Arrivals(2)) = 1
    /\ \A t \in Threads : pc[t] # "fanout"

\* C32: from the return of a stop() call until the next start() call (the
\* flag is cleared and the user thread is outside stop()), no step appends
\* to the history and no step calls a handler.
QuietAfterStop ==
    [][(~running /\ main_pc = "idle") =>
          /\ message_history' = message_history
          /\ Len(calls') <= Len(calls)
          /\ \A c \in Comms :
                Len(received_messages'[c]) <= Len(received_messages[c])]_vars

\* C33: a cleanup releases one communicator's handler only: of two
\* communicators registered under the same id, no single step unregisters
\* both, and the one left registered is still among the callbacks of a
\* message directed to the id.
CleanupReleasesOwnOnly ==
    [][\A c, d \in Comms :
          (c # d /\ agent_id[c] # None /\ agent_id[c] = agent_id[d]
              /\ Registered(c) /\ Registered(d)) =>
              /\ Registered(c)' \/ Registered(d)'
              /\ \A e \in {c, d} :
                    Registered(e)' => e \in Range(CallbacksOf(subscribers', agent_id[e]))]_vars

\* C34: every id in the registry, and so every id listed in
\* get_stats().active_agents and counted in get_stats().subscribers, has at
\* least one handler registered.
NoEmptyRegistryEntry ==
    LET stats == GetStats(message_history, subscribers)
    IN /\ \A i \in 1..Len(subscribers) : subscribers[i].cbs # <<>>
       /\ \A i \in 1..Len(stats.active_agents) :
             CallbacksOf(subscribers, stats.active_agents[i]) # <<>>
       /\ stats.subscribers =
             Cardinality({id \in Ids : CallbacksOf(subscribers, id) # <<>>})

\* C35: the fan-out of a message directed to its own sender's id calls the
\* handlers registered for that id, the sender's own among them, and when it
\* has ended the sending communicator has the message once in its mailbox or
\* its agent's buffer; the fan-out of a broadcast calls no handler of the
\* sender's id.
SelfSendDelivered ==
    \A t \in Threads :
        pc[t] = "fanout" =>
            IF cur[t].recipient_id = cur[t].sender_id
            THEN /\ [i \in 1..Len(FanOut) |-> FanOut[i].cb]
                       = CallbacksOf(subscribers, cur[t].sender_id)
                 /\ sent[cur[t].timestamp].by \in Range(CallbacksOf(subscribers, cur[t].sender_id))
                 /\ pending = <<>> =>
                       StampCount(cur[t].timestamp, Arrivals(sent[cur[t].timestamp].by)) = 1
            ELSE cur[t].recipient_id = None =>
                    \A i \in 1..Len(FanOut) : FanOut[i].id # cur[t].sender_id

\* C35 witness: A's communicator has sent a message to "A", the delivery is
\* over, and the message is in A's own mailbox.
SelfSendDeliveredWitness ==
    /\ \A t \in Threads : pc[t] # "fanout"
    /\ \E i \in 1..Len(received_messages[1]) :
          /\ received_messages[1][i].sender_id = "A"
          /\ received_messages[1][i].recipient_id = "A"
          /\ sent[received_messages[1][i].timestamp].by = 1

\* the step of a start() call: a dispatcher thread is launched
StartStep == nthreads' # nthreads

\* C36: the steps of start() and stop() calls change the running flag, the
\* processor_thread and the launched thread only: they leave the registry,
\* the history, the outbound queue, every mailbox and every agent's buffer
\* as they are, and the lock and every delivery in progress too.
StartStopFrame ==
    [][(StartStep \/ StopStep) =>
          /\ UNCHANGED <<subscribers, message_history, message_queue,
                         received_messages, message_buffer, lock, cur, pending, calls>>
          /\ \A t \in Threads : pc'[t] # pc[t] => (StartStep /\ pc[t] = "none")]_vars

\* C36 witness: after a stop() that left a message queued and a later
\* start(), the new loop is alive beside the ended one, the registry is
\* the fixture's, and the history still holds the message recorded before
\* the stop, followed by the message that was queued.
StartStopFrameWitness ==
    /\ nthreads = 2 /\ pc[1] = "done" /\ Alive(2) /\ running
    /\ Len(subscribers) = 2
    /\ Len(message_history) = 2
    /\ sent[1].up /\ message_history[1].timestamp = 1
    /\ queued_at_stop = {2} /\ message_history[2].timestamp = 2

\* C37: with communicator handlers only, every delivery that holds the lock
\* releases it and every fan-out ends back at the while test; whenever the
\* lock is free the user thread's subscribe, unsubscribe, get_message_history
\* and get_stats calls can proceed.
LockAlwaysReleased ==
    /\ (lock # 0) ~> (lock = 0)
    /\ \A t \in Threads : (pc[t] = "fanout") ~> (pc[t] = "loop")
    /\ []((lock = 0 /\ main_pc = "idle") =>
             /\ ENABLED GetStatsCall
             /\ ENABLED GetMessageHistoryCall(None, None, 0, 0)
             /\ ENABLED Unsubscribe("A", NoCallback)
             /\ ENABLED SubscribeFaulty("C"))

\* C37 witness: a get_stats call made after one delivery had released the
\* lock has counted its message, and a get_stats call now has to wait for a
\* second delivery, which has called a handler.
LockAlwaysReleasedWitness ==
    /\ stats_view.called /\ stats_view.stats.total_messages = 1
    /\ Len(message_history) = 2
    /\ lock # 0 /\ calls # <<>>
    /\ main_pc = "idle"
    /\ ~ENABLED GetStatsCall

\* the smaller of two numbers
Min(a, b) == IF a <= b THEN a ELSE b

\* C38: step_count never exceeds StepLimit; once the step that brings it
\* to StepLimit has ended the model is not running, and from then on no
\* step() call changes step_count or sets the model running again; a
\* run_simulation(steps) call has made at most min(steps, StepLimit -
\* step_count at entry) steps, and when it has made that many its loop can
\* make no further step and returns.
StepLimitEnds ==
    /\ [](/\ step_count <= StepLimit
          /\ (step_count = StepLimit /\ main_pc = "idle") => ~model_running
          /\ run.active =>
                step_count - run.count <= Min(run.steps, StepLimit - run.count)
          /\ (/\ run.active /\ main_pc = "idle"
              /\ step_count - run.count = Min(run.steps, StepLimit - run.count)) =>
                (~ENABLED RunIteration /\ ENABLED RunReturn))
    /\ [][~model_running => (~model_running' /\ step_count' = step_count)]_vars

\* C38 witness: a run_simulation call for more steps than the model had
\* left has returned after StepsLeft steps, at StepLimit, with the model
\* not running, and step() has been called on it since.
StepLimitEndsWitness ==
    /\ ~run.active
    /\ run.steps = MaxRunSteps
    /\ run.count = StepLimit - StepsLeft
    /\ run.steps > StepLimit - run.count
    /\ step_count = StepLimit
    /\ ~model_running
    /\ step_calls > StepLimit
    /\ main_pc = "idle"

\* C39: the book's available quantity is never negative; it goes down only
\* by one, from a quantity above zero, in the purchase of a customer's
\* agent_action, and every purchase takes one copy; it goes up only in an
\* employee's agent_action.
InventoryNeverNegative ==
    /\ [](availableQuantity >= 0)
    /\ [][/\ availableQuantity' < availableQuantity =>
                /\ availableQuantity > 0
                /\ availableQuantity' = availableQuantity - 1
                /\ main_pc = "action" /\ agent_id[stepping] \in CustomerIds
                /\ purchased_books'[stepping] = purchased_books[stepping] + 1
          /\ purchased_books' # purchased_books =>
                availableQuantity' = availableQuantity - 1
          /\ availableQuantity' > availableQuantity =>
                /\ main_pc = "action" /\ agent_id[stepping] \in EmployeeIds
                /\ purchased_books' = purchased_books]_vars

\* C39 witness: the customer has bought the last copies, has been stepped
\* again with the book out of stock and has bought nothing, and no restock
\* was made.
InventoryNeverNegativeWitness ==
    /\ availableQuantity = 0
    /\ purchased_books[1] = LowStock
    /\ step_count = MaxShopTicks
    /\ main_pc = "idle"
    /\ Len(tick_log[1]) = 2
    /\ \A k \in 1..Len(sent) : sent[k].kind # "restock_completed"
    /\ \E k \in 1..Len(sent) : sent[k].tick < step_count

\* the sum of f over the set S
RECURSIVE Total(_, _)
Total(f, S) ==
    IF S = {} THEN 0
    ELSE LET c == CHOOSE x \in S : TRUE IN f[c] + Total(f, S \ {c})

\* compute_total_books_sold: the sum of sales_count over the book agents of
\* the model's schedule
compute_total_books_sold ==
    Total(sales_count, {c \in Agents : agent_id[c] \in BookIds})

\* the purchases made by the customers of the model
TotalPurchases ==
    Total(purchased_books, {c \in Agents : agent_id[c] \in CustomerIds})

\* C40: the books sold of a model never exceed the purchases made by that
\* model's customers, also in a model made on the process-wide bus after an
\* earlier model was cleaned up.
SalesWithinPurchases ==
    compute_total_books_sold <= TotalPurchases

\* within the first model of the process the books sold never exceed the
\* purchases
FirstModelSalesWithinPurchases ==
    prior_agents = 0 => compute_total_books_sold <= TotalPurchases

====
